---- MODULE Spec2Model ----
(***************************************************************************)
(* Yacht dice game server: the GameManager (in-memory game state, turn     *)
(* timer, connection registry) on top of the storage repository.           *)
(*                                                                         *)
(* One room (game id 1) is modelled.  Every handler is one action: with    *)
(* the in-memory repository (MemStorage) every awaited repository call     *)
(* resolves in the microtask queue, so a message handler, a timer callback *)
(* or a disconnect handler runs to its end before the next event is taken. *)
(***************************************************************************)
EXTENDS Integers, Sequences, FiniteSets, TLC

----------------------------------------------------------------------------
(* Bounds of the model *)

\* users that exist (created through POST /api/users before the room)
MaxUsers == 2
\* websocket connections that can be open at the same time
MaxSockets == 2
\* the countdown of a turn in ticks (60 one-second ticks in the source,
\* scaled down; the countdown logic does not depend on the number)
TURN_TIMER_DURATION == 2
\* restarts of the room (every restart adds a score card row per player)
MaxRestarts == 1
\* the round counter is not advanced past this value in Spec
MaxRound == 3
\* the round counter is not advanced past this value in SpecFull
MaxRoundFull == 13

\* the categories a SCORE_CATEGORY message names in Spec: the first
\* MaxScoreInput ones of the enum
MaxScoreInput == 1
\* the players 1 .. MaxToggler send TOGGLE_READY
MaxToggler == 1

\* Number of rolls allowed per turn
MAX_ROLLS_PER_TURN == 3
\* rounds of a game, set when the game record is created
maxRounds == 12
\* dice of a roll
NumDice == 5

Users == 1 .. MaxUsers
Sockets == 1 .. MaxSockets
DiceIdx == 1 .. NumDice

\* absent value (null / undefined) of a score card entry
NULL == -1

----------------------------------------------------------------------------
(* Shared types *)

\* enum ScoreCategory, in declaration order
ScoreCategory == << "ones", "twos", "threes", "fours", "fives", "sixes",
                    "threeOfAKind", "fourOfAKind", "fullHouse",
                    "smallStraight", "largeStraight", "yacht", "chance" >>

Categories == { ScoreCategory[i] : i \in 1 .. Len(ScoreCategory) }

DefaultDice == << 1, 1, 1, 1, 1 >>
NoSelection == << FALSE, FALSE, FALSE, FALSE, FALSE >>

\* a score card row as createScoreCard leaves it: no category set
EmptyCard == [ c \in Categories |-> NULL ]

----------------------------------------------------------------------------
(* Scoring *)

RECURSIVE SumSeq(_)
SumSeq(s) == IF s = << >> THEN 0 ELSE Head(s) + SumSeq(Tail(s))

\* counts[value - 1]++ for every die
Counts(dice) == [ v \in 1 .. 6 |-> Cardinality({ i \in DOMAIN dice : dice[i] = v }) ]

\* calculateScore whose full house asks for three of a kind only
calculateScore_ThreeIsFullHouse(dice, category) ==
    LET counts == Counts(dice)
        total  == SumSeq(dice)
    IN  CASE category = "ones"   -> counts[1] * 1
          [] category = "twos"   -> counts[2] * 2
          [] category = "threes" -> counts[3] * 3
          [] category = "fours"  -> counts[4] * 4
          [] category = "fives"  -> counts[5] * 5
          [] category = "sixes"  -> counts[6] * 6
          [] category = "threeOfAKind" ->
                IF \E v \in 1 .. 6 : counts[v] >= 3 THEN total ELSE 0
          [] category = "fourOfAKind" ->
                IF \E v \in 1 .. 6 : counts[v] >= 4 THEN total ELSE 0
          [] category = "fullHouse" ->
                IF \E v \in 1 .. 6 : counts[v] = 3 THEN 25 ELSE 0
          [] category = "smallStraight" ->
                IF \/ (counts[1] > 0 /\ counts[2] > 0 /\ counts[3] > 0 /\ counts[4] > 0)
                   \/ (counts[2] > 0 /\ counts[3] > 0 /\ counts[4] > 0 /\ counts[5] > 0)
                   \/ (counts[3] > 0 /\ counts[4] > 0 /\ counts[5] > 0 /\ counts[6] > 0)
                THEN 30 ELSE 0
          [] category = "largeStraight" ->
                IF \/ (counts[1] > 0 /\ counts[2] > 0 /\ counts[3] > 0 /\ counts[4] > 0 /\ counts[5] > 0)
                   \/ (counts[2] > 0 /\ counts[3] > 0 /\ counts[4] > 0 /\ counts[5] > 0 /\ counts[6] > 0)
                THEN 40 ELSE 0
          [] category = "yacht" ->
                IF \E v \in 1 .. 6 : counts[v] = 5 THEN 50 ELSE 0
          [] category = "chance" -> total
          [] OTHER -> 0

calculateScore(dice, category) ==
    LET counts == Counts(dice)
        total  == SumSeq(dice)
    IN  CASE category = "ones"   -> counts[1] * 1
          [] category = "twos"   -> counts[2] * 2
          [] category = "threes" -> counts[3] * 3
          [] category = "fours"  -> counts[4] * 4
          [] category = "fives"  -> counts[5] * 5
          [] category = "sixes"  -> counts[6] * 6
          [] category = "threeOfAKind" ->
                IF \E v \in 1 .. 6 : counts[v] >= 3 THEN total ELSE 0
          [] category = "fourOfAKind" ->
                IF \E v \in 1 .. 6 : counts[v] >= 4 THEN total ELSE 0
          [] category = "fullHouse" ->
                IF (\E v \in 1 .. 6 : counts[v] = 3) /\ (\E v \in 1 .. 6 : counts[v] = 2)
                THEN 25 ELSE 0
          [] category = "smallStraight" ->
                IF \/ (counts[1] > 0 /\ counts[2] > 0 /\ counts[3] > 0 /\ counts[4] > 0)
                   \/ (counts[2] > 0 /\ counts[3] > 0 /\ counts[4] > 0 /\ counts[5] > 0)
                   \/ (counts[3] > 0 /\ counts[4] > 0 /\ counts[5] > 0 /\ counts[6] > 0)
                THEN 30 ELSE 0
          [] category = "largeStraight" ->
                IF \/ (counts[1] > 0 /\ counts[2] > 0 /\ counts[3] > 0 /\ counts[4] > 0 /\ counts[5] > 0)
                   \/ (counts[2] > 0 /\ counts[3] > 0 /\ counts[4] > 0 /\ counts[5] > 0 /\ counts[6] > 0)
                THEN 40 ELSE 0
          [] category = "yacht" ->
                IF \E v \in 1 .. 6 : counts[v] = 5 THEN 50 ELSE 0
          [] category = "chance" -> total
          [] OTHER -> 0

\* `scoreCard[category] || 0` of the client: a category that is not set
\* counts as 0
ValueOrZero(scoreCard, category) ==
    IF scoreCard[category] = NULL THEN 0 ELSE scoreCard[category]

\* the sum of the categories ScoreCategory[k], ..., ScoreCategory[n]
RECURSIVE SumCategories(_, _, _)
SumCategories(scoreCard, k, n) ==
    IF k > n THEN 0
    ELSE ValueOrZero(scoreCard, ScoreCategory[k]) + SumCategories(scoreCard, k + 1, n)

\* the upper section, ones to sixes, and what its bonus asks for and gives
UpperCategories == 6
BonusThreshold == 63
BonusPoints == 35

\* the Scorecard component that never adds the bonus
Scorecard_NoBonus(scoreCard) ==
    LET upperSectionTotal == SumCategories(scoreCard, 1, UpperCategories)
    IN  [ upperSectionTotal |-> upperSectionTotal,
          upperSectionBonus |-> 0,
          totalScore        |-> SumCategories(scoreCard, 1, Len(ScoreCategory)) ]

\* the totals the Scorecard component of the client computes from the
\* score card of the snapshot
Scorecard(scoreCard) ==
    LET upperSectionTotal == SumCategories(scoreCard, 1, UpperCategories)
        upperSectionBonus == IF upperSectionTotal >= BonusThreshold
                             THEN BonusPoints ELSE 0
    IN  [ upperSectionTotal |-> upperSectionTotal,
          upperSectionBonus |-> upperSectionBonus,
          totalScore        |-> SumCategories(scoreCard, 1, Len(ScoreCategory))
                                  + upperSectionBonus ]

----------------------------------------------------------------------------
(* State *)

VARIABLES
    dbGame,             \* repository: the game record
    dbPlayers,          \* repository: player records, player id = index
    dbScoreCards,       \* repository: score card rows, row id = index
    games,              \* GameManager.games.get(1): the in-memory GameState
    turnTimers,         \* the intervals of the room that are running (the
                        \* latest is the entry of GameManager.turnTimers)
    playerConnections,  \* GameManager.playerConnections: key -> sockets
    wsPlayerId,         \* per connection: the playerId of its handler (0 = none)
    last,               \* the operation handled last and whether it took effect
    turns,              \* history: the active participant and round before and
                        \* after each of the latest consecutive turn advances
    pending,            \* handler runs that are waiting at a repository await
    outbox,             \* the messages the event handled last has sent
    created,            \* the rooms createGame has made, by game id: the code
                        \* and the records and snapshot it has made for each
    scorecardView,      \* client: the totals the Scorecard component shows
    rollsInTurn         \* history: the rolls accepted since the turn began

vars == << dbGame, dbPlayers, dbScoreCards, games, turnTimers,
           playerConnections, wsPlayerId, last, turns, created, scorecardView, rollsInTurn, pending, outbox >>

\* what only some of the specifications keep track of
aux == << turns, created, scorecardView, rollsInTurn, pending, outbox >>

PlayerIds == 1 .. Len(dbPlayers)

----------------------------------------------------------------------------
(* Repository (storage) *)

\* createPlayer: score 0, not ready, connected
NewPlayer(userId, turnOrder) ==
    [ userId |-> userId, turnOrder |-> turnOrder, score |-> 0,
      isReady |-> FALSE, disconnected |-> FALSE ]

\* createScoreCard
NewScoreCard(playerId) == [ playerId |-> playerId, card |-> EmptyCard ]

\* index of the row getScoreCardByPlayerId / updateScoreCard find: the
\* first row of the player (0 when there is none)
ScoreCardRow(cards, playerId) ==
    LET rows == { i \in DOMAIN cards : cards[i].playerId = playerId }
    IN  IF rows = {} THEN 0
        ELSE CHOOSE i \in rows : \A j \in rows : i <= j

getScoreCardByPlayerId(cards, playerId) ==
    LET i == ScoreCardRow(cards, playerId)
    IN  IF i = 0 THEN EmptyCard ELSE cards[i].card

updateScoreCard(cards, playerId, category, score) ==
    LET i == ScoreCardRow(cards, playerId)
    IN  IF i = 0 THEN cards
        ELSE [ cards EXCEPT ![i].card[category] = score ]

\* getPlayerByGameAndUser: the id of the user's player, 0 when not found
getPlayerByGameAndUser(players, userId) ==
    LET ids == { i \in DOMAIN players : players[i].userId = userId }
    IN  IF ids = {} THEN 0
        ELSE CHOOSE i \in ids : \A j \in ids : i <= j

----------------------------------------------------------------------------
(* GameManager: building the in-memory state *)

\* value || undefined: null, undefined and 0 all become undefined
formatScoreCard(card) ==
    [ c \in Categories |-> IF card[c] = NULL \/ card[c] = 0 THEN NULL ELSE card[c] ]

\* the GameState built from a game record and the repository's players
\* and score cards; dice, rolls, selection and countdown start afresh
initializeGameState(game, players, cards) ==
    [ status          |-> game.status,
      hostId          |-> game.hostId,
      currentPlayerId |-> game.currentPlayerId,
      currentRound    |-> game.currentRound,
      players         |-> [ i \in DOMAIN players |->
                            [ id            |-> i,
                              userId        |-> players[i].userId,
                              score         |-> players[i].score,
                              turnOrder     |-> players[i].turnOrder,
                              isReady       |-> players[i].isReady,
                              isHost        |-> players[i].userId = game.hostId,
                              isCurrentTurn |-> game.currentPlayerId = i,
                              disconnected  |-> players[i].disconnected,
                              scoreCard     |->
                                  IF ScoreCardRow(cards, i) = 0
                                  THEN EmptyCard
                                  ELSE formatScoreCard(getScoreCardByPlayerId(cards, i)) ] ],
      currentDice     |-> DefaultDice,
      rollsLeft       |-> MAX_ROLLS_PER_TURN,
      selectedDice    |-> NoSelection,
      turnTimer       |-> TURN_TIMER_DURATION ]

----------------------------------------------------------------------------
(* Turn timer: the number of running intervals after the call *)

\* clearTurnTimer: the interval the map holds is cancelled
clearTurnTimer == IF turnTimers > 0 THEN turnTimers - 1 ELSE 0

\* startTurnTimer that does not clear the existing interval first
startTurnTimer_NoClear == turnTimers + 1

\* startTurnTimer (and resetTurnTimer): clear, then set a new interval
startTurnTimer == clearTurnTimer + 1

\* nothing has been sent
NoMessages == [ from |-> 0, updates |-> {}, failed |-> {}, errors |-> {} ]

----------------------------------------------------------------------------
(* Initial state: user h has created the room (createGame) *)

CreatedGame(h) ==
    [ status |-> "waiting", hostId |-> h, currentPlayerId |-> 0, currentRound |-> 1 ]

\* what createGame makes for host h with the code it has generated
NewGame(code, h) ==
    [ code       |-> code,
      game       |-> CreatedGame(h),
      players    |-> << NewPlayer(h, 1) >>,
      scoreCards |-> << NewScoreCard(1) >>,
      gameState  |-> initializeGameState(CreatedGame(h), << NewPlayer(h, 1) >>,
                                         << NewScoreCard(1) >>) ]

Init ==
    \E h \in {MaxUsers} :
        /\ dbGame = CreatedGame(h)
        /\ dbPlayers = << NewPlayer(h, 1) >>
        /\ dbScoreCards = << NewScoreCard(1) >>
        /\ games = initializeGameState(CreatedGame(h), << NewPlayer(h, 1) >>,
                                       << NewScoreCard(1) >>)
        /\ turnTimers = 0
        /\ playerConnections = [ k \in 1 .. MaxUsers |-> {} ]
        /\ wsPlayerId = [ s \in Sockets |-> 0 ]
        /\ last = [ op |-> "createGame", by |-> 1, ok |-> TRUE ]
        /\ turns = << >>
        /\ pending = {}
        /\ outbox = NoMessages
        /\ created = << NewGame(1, h) >>
        /\ scorecardView = Scorecard(EmptyCard)
        /\ rollsInTurn = 0

\* an operation that is rejected changes nothing
Rejected(op, by) ==
    /\ last' = [ op |-> op, by |-> by, ok |-> FALSE ]
    /\ UNCHANGED << dbGame, dbPlayers, dbScoreCards, games, turnTimers,
                    playerConnections, wsPlayerId >>

Done(op, by) == last' = [ op |-> op, by |-> by, ok |-> TRUE ]

----------------------------------------------------------------------------
(* joinGame, called by POST /api/games/:code/join for an existing user *)

joinGame(userId) ==
    IF dbGame.status # "waiting" /\ dbGame.status # "in_progress"
    THEN Rejected("joinGame", userId)
    ELSE LET existingPlayer == getPlayerByGameAndUser(dbPlayers, userId)
         IN  /\ IF existingPlayer # 0
                THEN /\ dbPlayers' = [ dbPlayers EXCEPT ![existingPlayer].disconnected = FALSE ]
                     /\ UNCHANGED dbScoreCards
                ELSE /\ dbPlayers' = Append(dbPlayers, NewPlayer(userId, Len(dbPlayers) + 1))
                     /\ dbScoreCards' = Append(dbScoreCards, NewScoreCard(Len(dbPlayers) + 1))
             /\ games' = initializeGameState(dbGame, dbPlayers', dbScoreCards')
             /\ Done("joinGame", userId)
             /\ UNCHANGED << dbGame, turnTimers, playerConnections, wsPlayerId >>

----------------------------------------------------------------------------
(* Turn order *)

\* players.sort((a, b) => a.turnOrder - b.turnOrder): the ids of S in
\* ascending turn order, equal turn orders in repository order
RECURSIVE SortByTurnOrder(_, _)
SortByTurnOrder(players, S) ==
    IF S = {} THEN << >>
    ELSE LET m == CHOOSE i \in S : \A j \in S :
                      \/ players[i].turnOrder < players[j].turnOrder
                      \/ (players[i].turnOrder = players[j].turnOrder /\ i <= j)
         IN  << m >> \o SortByTurnOrder(players, S \ {m})

\* the id of the player after the one with turn order currentTurnOrder,
\* wrapping around; 0 when no player has that turn order
getNextPlayer(players, currentTurnOrder) ==
    LET sorted == SortByTurnOrder(players, DOMAIN players)
        hits   == { k \in DOMAIN sorted : players[sorted[k]].turnOrder = currentTurnOrder }
    IN  IF hits = {} THEN 0
        ELSE LET currentIndex == CHOOSE k \in hits : \A j \in hits : k <= j
             IN  sorted[(currentIndex % Len(sorted)) + 1]

\* "Move to next player" of scoreCategory and passTurn: the game record
\* after the turn has moved on from the player with turn order turnOrder
MoveToNextPlayer(game, players, turnOrder) ==
    LET nextPlayer == getNextPlayer(players, turnOrder)
    IN  IF nextPlayer = 0 THEN game
        ELSE [ game EXCEPT
                 !.currentPlayerId = nextPlayer,
                 !.currentRound = IF players[nextPlayer].turnOrder = 1
                                  THEN game.currentRound + 1
                                  ELSE game.currentRound ]

\* checkGameCompletion on the repository
checkGameCompletion(game, players, cards) ==
    IF Len(players) = 0 THEN FALSE
    ELSE IF game.currentRound > maxRounds THEN TRUE
    ELSE \A i \in DOMAIN players :
            \/ ScoreCardRow(cards, i) = 0
            \/ \A c \in Categories : getScoreCardByPlayerId(cards, i)[c] # NULL

----------------------------------------------------------------------------
(* startGame: START_GAME with the hostId the message carries *)

\* startGame that sets the status but not the current player
startGame_NoCurrentPlayer(hostId) ==
    IF dbGame.hostId # hostId
    THEN Rejected("startGame", hostId)
    ELSE /\ dbGame' = [ dbGame EXCEPT !.status = "in_progress" ]
         /\ games' = initializeGameState(dbGame', dbPlayers, dbScoreCards)
         /\ turnTimers' = startTurnTimer
         /\ Done("startGame", hostId)
         /\ UNCHANGED << dbPlayers, dbScoreCards, playerConnections, wsPlayerId >>

\* startGame that gives the first turn to the player last in turn order
startGame_LastPlayer(hostId) ==
    IF dbGame.hostId # hostId
    THEN Rejected("startGame", hostId)
    ELSE LET firstPlayer == SortByTurnOrder(dbPlayers, DOMAIN dbPlayers)[Len(dbPlayers)]
         IN  /\ dbGame' = [ dbGame EXCEPT !.status = "in_progress",
                                          !.currentPlayerId = firstPlayer ]
             /\ games' = initializeGameState(dbGame', dbPlayers, dbScoreCards)
             /\ turnTimers' = startTurnTimer
             /\ Done("startGame", hostId)
             /\ UNCHANGED << dbPlayers, dbScoreCards, playerConnections, wsPlayerId >>

startGame(hostId) ==
    IF dbGame.hostId # hostId
    THEN Rejected("startGame", hostId)
    ELSE LET firstPlayer == SortByTurnOrder(dbPlayers, DOMAIN dbPlayers)[1]
         IN  /\ dbGame' = [ dbGame EXCEPT !.status = "in_progress",
                                          !.currentPlayerId = firstPlayer ]
             /\ games' = initializeGameState(dbGame', dbPlayers, dbScoreCards)
             /\ turnTimers' = startTurnTimer
             /\ Done("startGame", hostId)
             /\ UNCHANGED << dbPlayers, dbScoreCards, playerConnections, wsPlayerId >>

----------------------------------------------------------------------------
(* rollDice: ROLL_DICE of player playerId with the hold mask of the        *)
(* message; newDiceValues are the five faces the dice roller (or the       *)
(* Math.random fallback) has drawn                                         *)

\* the effect of a roll that is accepted
rollDiceAccepted(playerId, selectedIndices, newDiceValues) ==
    /\ games' = [ games EXCEPT
                    !.currentDice = [ i \in DiceIdx |->
                                        IF selectedIndices[i]
                                        THEN games.currentDice[i]
                                        ELSE newDiceValues[i] ],
                    !.rollsLeft = games.rollsLeft - 1,
                    !.selectedDice = NoSelection,
                    !.turnTimer = TURN_TIMER_DURATION ]
    /\ turnTimers' = startTurnTimer
    /\ Done("rollDice", playerId)
    /\ UNCHANGED << dbGame, dbPlayers, dbScoreCards, playerConnections, wsPlayerId >>

\* rollDice without the check of whose turn it is
rollDice_AnyPlayer(playerId, selectedIndices, newDiceValues) ==
    IF games.rollsLeft <= 0
    THEN Rejected("rollDice", playerId)
    ELSE rollDiceAccepted(playerId, selectedIndices, newDiceValues)

\* rollDice without the check of the rolls left
rollDice_NoLimit(playerId, selectedIndices, newDiceValues) ==
    IF games.currentPlayerId # playerId
    THEN Rejected("rollDice", playerId)
    ELSE rollDiceAccepted(playerId, selectedIndices, newDiceValues)

rollDice(playerId, selectedIndices, newDiceValues) ==
    IF games.currentPlayerId # playerId \/ games.rollsLeft <= 0
    THEN Rejected("rollDice", playerId)
    ELSE rollDiceAccepted(playerId, selectedIndices, newDiceValues)

(* selectDice: SELECT_DICE with zero-based dice indices *)

selectDice(playerId, diceIndices) ==
    IF games.currentPlayerId # playerId
    THEN Rejected("selectDice", playerId)
    ELSE /\ games' = [ games EXCEPT
                         !.selectedDice = [ i \in DiceIdx |->
                             \E index \in diceIndices :
                                 index >= 0 /\ index < 5 /\ index = i - 1 ] ]
         /\ Done("selectDice", playerId)
         /\ UNCHANGED << dbGame, dbPlayers, dbScoreCards, turnTimers,
                         playerConnections, wsPlayerId >>

----------------------------------------------------------------------------
(* scoreCategory: SCORE_CATEGORY of player playerId *)

\* scoreCategory that adds the score to every player of the room
scoreCategory_AllPlayers(playerId, category) ==
    IF \/ games.currentPlayerId # playerId
       \/ playerId \notin DOMAIN games.players
    THEN Rejected("scoreCategory", playerId)
    ELSE IF games.players[playerId].scoreCard[category] # NULL
    THEN Rejected("scoreCategory", playerId)
    ELSE LET player == games.players[playerId]
             score  == calculateScore(games.currentDice, category)
             cards  == updateScoreCard(dbScoreCards, playerId, category, score)
             plrs   == [ i \in DOMAIN dbPlayers |->
                           [ dbPlayers[i] EXCEPT !.score = @ + score ] ]
         IN  /\ dbScoreCards' = cards
             /\ dbPlayers' = plrs
             /\ IF checkGameCompletion(dbGame, plrs, cards)
                THEN /\ dbGame' = [ dbGame EXCEPT !.status = "completed" ]
                     /\ turnTimers' = clearTurnTimer
                ELSE /\ dbGame' = MoveToNextPlayer(dbGame, plrs, player.turnOrder)
                     /\ turnTimers' = startTurnTimer
             /\ games' = initializeGameState(dbGame', plrs, cards)
             /\ Done("scoreCategory", playerId)
             /\ UNCHANGED << playerConnections, wsPlayerId >>

scoreCategory(playerId, category) ==
    IF \/ games.currentPlayerId # playerId
       \/ playerId \notin DOMAIN games.players
    THEN Rejected("scoreCategory", playerId)
    ELSE IF games.players[playerId].scoreCard[category] # NULL
    THEN Rejected("scoreCategory", playerId)
    ELSE LET player == games.players[playerId]
             score  == calculateScore(games.currentDice, category)
             cards  == updateScoreCard(dbScoreCards, playerId, category, score)
             plrs   == [ dbPlayers EXCEPT ![playerId].score = player.score + score ]
         IN  /\ dbScoreCards' = cards
             /\ dbPlayers' = plrs
             /\ IF checkGameCompletion(dbGame, plrs, cards)
                THEN /\ dbGame' = [ dbGame EXCEPT !.status = "completed" ]
                     /\ turnTimers' = clearTurnTimer
                ELSE /\ dbGame' = MoveToNextPlayer(dbGame, plrs, player.turnOrder)
                     /\ turnTimers' = startTurnTimer
             /\ games' = initializeGameState(dbGame', plrs, cards)
             /\ Done("scoreCategory", playerId)
             /\ UNCHANGED << playerConnections, wsPlayerId >>

----------------------------------------------------------------------------
(* passTurn *)

\* the checks of passTurn against the in-memory state
passTurnAccepted(playerId) ==
    /\ games.currentPlayerId = playerId
    /\ playerId \in DOMAIN games.players

\* the game record passTurn leaves in the repository
passTurnGame(playerId) ==
    MoveToNextPlayer(dbGame, dbPlayers, games.players[playerId].turnOrder)

\* PASS_TURN of player playerId
passTurn(playerId) ==
    IF ~ passTurnAccepted(playerId)
    THEN Rejected("passTurn", playerId)
    ELSE /\ dbGame' = passTurnGame(playerId)
         /\ turnTimers' = startTurnTimer
         /\ games' = initializeGameState(dbGame', dbPlayers, dbScoreCards)
         /\ Done("passTurn", playerId)
         /\ UNCHANGED << dbPlayers, dbScoreCards, playerConnections, wsPlayerId >>

----------------------------------------------------------------------------
(* The interval callback of startTurnTimer, once a second *)

timerTick ==
    /\ turnTimers > 0
    /\ IF games.turnTimer - 1 > 0
       THEN /\ games' = [ games EXCEPT !.turnTimer = games.turnTimer - 1 ]
            /\ Done("timerTick", 0)
            /\ UNCHANGED << dbGame, turnTimers >>
       ELSE IF games.currentPlayerId \in DOMAIN games.players
       THEN \* time is up: the timer is cleared and the turn is passed
            /\ dbGame' = passTurnGame(games.currentPlayerId)
            /\ turnTimers' = startTurnTimer
            /\ games' = initializeGameState(dbGame', dbPlayers, dbScoreCards)
            /\ Done("timerExpired", games.currentPlayerId)
       ELSE \* time is up and nobody holds the turn: the timer is cleared
            /\ games' = [ games EXCEPT !.turnTimer = games.turnTimer - 1 ]
            /\ turnTimers' = clearTurnTimer
            /\ Done("timerExpired", 0)
            /\ UNCHANGED dbGame
    /\ UNCHANGED << dbPlayers, dbScoreCards, playerConnections, wsPlayerId >>

----------------------------------------------------------------------------
(* togglePlayerReady: TOGGLE_READY of player playerId *)

togglePlayerReady(playerId) ==
    IF playerId \notin DOMAIN dbPlayers
    THEN Rejected("togglePlayerReady", playerId)
    ELSE /\ dbPlayers' = [ dbPlayers EXCEPT ![playerId].isReady = ~ dbPlayers[playerId].isReady ]
         /\ games' = initializeGameState(dbGame, dbPlayers', dbScoreCards)
         /\ Done("togglePlayerReady", playerId)
         /\ UNCHANGED << dbGame, dbScoreCards, turnTimers, playerConnections, wsPlayerId >>

----------------------------------------------------------------------------
(* restartGame: RESTART_GAME with the hostId the message carries *)

RECURSIVE NewScoreCards(_, _)
\* one createScoreCard per player 1 .. n, in order
NewScoreCards(k, n) ==
    IF k > n THEN << >> ELSE << NewScoreCard(k) >> \o NewScoreCards(k + 1, n)

\* restartGame that also puts every player at turn order 1
restartGame_ResetTurnOrder(hostId) ==
    IF dbGame.hostId # hostId
    THEN Rejected("restartGame", hostId)
    ELSE /\ dbGame' = [ dbGame EXCEPT !.status = "waiting",
                                      !.currentPlayerId = 0,
                                      !.currentRound = 1 ]
         /\ dbPlayers' = [ i \in DOMAIN dbPlayers |->
                             [ dbPlayers[i] EXCEPT !.score = 0, !.isReady = FALSE,
                                                   !.turnOrder = 1 ] ]
         /\ dbScoreCards' = dbScoreCards \o NewScoreCards(1, Len(dbPlayers))
         /\ games' = initializeGameState(dbGame', dbPlayers', dbScoreCards')
         /\ Done("restartGame", hostId)
         /\ UNCHANGED << turnTimers, playerConnections, wsPlayerId >>

restartGame(hostId) ==
    IF dbGame.hostId # hostId
    THEN Rejected("restartGame", hostId)
    ELSE /\ dbGame' = [ dbGame EXCEPT !.status = "waiting",
                                      !.currentPlayerId = 0,
                                      !.currentRound = 1 ]
         /\ dbPlayers' = [ i \in DOMAIN dbPlayers |->
                             [ dbPlayers[i] EXCEPT !.score = 0, !.isReady = FALSE ] ]
         /\ dbScoreCards' = dbScoreCards \o NewScoreCards(1, Len(dbPlayers))
         /\ games' = initializeGameState(dbGame', dbPlayers', dbScoreCards')
         /\ Done("restartGame", hostId)
         /\ UNCHANGED << turnTimers, playerConnections, wsPlayerId >>

----------------------------------------------------------------------------
(* Connection registry *)

\* REGISTER_PLAYER with playerId on a connection not registered before
registerPlayerConnection(socket, playerId) ==
    /\ wsPlayerId[socket] = 0
    /\ wsPlayerId' = [ wsPlayerId EXCEPT ![socket] = playerId ]
    /\ playerConnections' = [ playerConnections EXCEPT ![playerId] = @ \cup {socket} ]
    /\ Done("registerPlayer", playerId)
    /\ UNCHANGED << dbGame, dbPlayers, dbScoreCards, games, turnTimers >>

\* handlePlayerDisconnect for an existing player: the game record is read
\* before passTurn runs, and the state is rebuilt from that record after it
handlePlayerDisconnect(playerId) ==
    LET game == dbGame
        plrs == [ dbPlayers EXCEPT ![playerId].disconnected = TRUE ]
        pass == game.currentPlayerId = playerId /\ passTurnAccepted(playerId)
    IN  /\ dbPlayers' = plrs
        /\ IF pass
           THEN /\ dbGame' = passTurnGame(playerId)
                /\ turnTimers' = startTurnTimer
           ELSE UNCHANGED << dbGame, turnTimers >>
        /\ games' = initializeGameState(game, plrs, dbScoreCards)
        /\ UNCHANGED dbScoreCards

\* unregisterPlayerConnection that handles the disconnect at every close
closeConnection_EveryClose(socket) ==
    LET playerId    == wsPlayerId[socket]
        connections == playerConnections[playerId] \ {socket}
    IN  /\ playerId # 0
        /\ wsPlayerId' = [ wsPlayerId EXCEPT ![socket] = 0 ]
        /\ playerConnections' = [ playerConnections EXCEPT ![playerId] = connections ]
        /\ IF playerId \in DOMAIN dbPlayers
           THEN /\ handlePlayerDisconnect(playerId)
                /\ Done("disconnect", playerId)
           ELSE /\ Done("closeConnection", playerId)
                /\ UNCHANGED << dbGame, dbPlayers, dbScoreCards, games, turnTimers >>

\* the close event of a registered connection: unregisterPlayerConnection
closeConnection(socket) ==
    LET playerId    == wsPlayerId[socket]
        connections == playerConnections[playerId] \ {socket}
    IN  /\ playerId # 0
        /\ wsPlayerId' = [ wsPlayerId EXCEPT ![socket] = 0 ]
        /\ playerConnections' = [ playerConnections EXCEPT ![playerId] = connections ]
        /\ IF connections = {} /\ playerId \in DOMAIN dbPlayers
           THEN /\ handlePlayerDisconnect(playerId)
                /\ Done("disconnect", playerId)
           ELSE /\ Done("closeConnection", playerId)
                /\ UNCHANGED << dbGame, dbPlayers, dbScoreCards, games, turnTimers >>

----------------------------------------------------------------------------
(* Inputs *)

\* hold masks a ROLL_DICE message carries
HoldInputs == { NoSelection, << TRUE, TRUE, FALSE, FALSE, FALSE >> }
\* faces the dice roller draws
RollOutcomes == { << 2, 2, 3, 3, 3 >> }
\* index lists a SELECT_DICE message carries (5 is not a die)
SelectInputs == { {0, 5} }
\* categories a SCORE_CATEGORY message names
ScoreInputs == { ScoreCategory[i] : i \in 1 .. MaxScoreInput }
\* players that send TOGGLE_READY
ToggleInputs == PlayerIds \cap 1 .. MaxToggler

Restarts == Cardinality({ i \in DOMAIN dbScoreCards : dbScoreCards[i].playerId = 1 }) - 1

\* the round counter stays within the bound
RoundBound(cap) == dbGame'.currentRound <= cap

----------------------------------------------------------------------------
(* Spec: the handlers of one room, each run that takes effect.  A run that *)
(* is rejected changes nothing but `last`; those runs are added in         *)
(* SpecRej.  Connections are not tracked here: any player can have a       *)
(* registered connection (REGISTER_PLAYER checks nothing), and Disconnect  *)
(* is the close of a player's last connection.                             *)

JoinGame == \E u \in Users : joinGame(u) /\ last'.ok /\ UNCHANGED aux

StartGame == \E h \in Users : startGame(h) /\ last'.ok /\ UNCHANGED aux

RollDice ==
    \E p \in PlayerIds, sel \in HoldInputs, new \in RollOutcomes :
        rollDice(p, sel, new) /\ last'.ok /\ UNCHANGED aux

SelectDice ==
    \E p \in PlayerIds, idx \in SelectInputs :
        selectDice(p, idx) /\ last'.ok /\ UNCHANGED aux

ScoreCategoryMsg ==
    \E p \in PlayerIds, c \in ScoreInputs :
        scoreCategory(p, c) /\ last'.ok /\ RoundBound(MaxRound) /\ UNCHANGED aux

PassTurn ==
    \E p \in PlayerIds :
        passTurn(p) /\ last'.ok /\ RoundBound(MaxRound) /\ UNCHANGED aux

TimerTick == timerTick /\ RoundBound(MaxRound) /\ UNCHANGED aux

ToggleReady ==
    \E p \in ToggleInputs : togglePlayerReady(p) /\ last'.ok /\ UNCHANGED aux

RestartGame ==
    \E h \in Users :
        Restarts < MaxRestarts /\ restartGame(h) /\ last'.ok /\ UNCHANGED aux

Disconnect ==
    \E p \in PlayerIds :
        /\ handlePlayerDisconnect(p)
        /\ Done("disconnect", p)
        /\ RoundBound(MaxRound)
        /\ UNCHANGED << playerConnections, wsPlayerId, aux >>

Next ==
    \/ JoinGame
    \/ StartGame
    \/ RollDice
    \/ SelectDice
    \/ ScoreCategoryMsg
    \/ PassTurn
    \/ TimerTick
    \/ ToggleReady
    \/ RestartGame
    \/ Disconnect

Spec == Init /\ [][Next]_vars

----------------------------------------------------------------------------
(* SpecRej: the runs of the handlers that are rejected, added to the     *)
(* handlers of Spec that move the game (ready flags and restarts are left  *)
(* to Spec)                                                                *)

RejectedRun ==
    /\ \/ \E u \in Users : joinGame(u)
       \/ \E h \in Users : startGame(h)
       \/ \E p \in PlayerIds, sel \in HoldInputs, new \in RollOutcomes : rollDice(p, sel, new)
       \/ \E p \in PlayerIds, idx \in SelectInputs : selectDice(p, idx)
       \/ \E p \in PlayerIds, c \in ScoreInputs : scoreCategory(p, c)
       \/ \E p \in PlayerIds : passTurn(p)
       \/ \E h \in Users : restartGame(h)
    /\ ~ last'.ok
    /\ UNCHANGED aux

NextRej ==
    \/ JoinGame
    \/ StartGame
    \/ RollDice
    \/ SelectDice
    \/ ScoreCategoryMsg
    \/ PassTurn
    \/ TimerTick
    \/ Disconnect
    \/ RejectedRun

SpecRej == Init /\ [][NextRej]_vars

----------------------------------------------------------------------------
(* SpecFull: whole games.  No dice are rolled, and a SCORE_CATEGORY names  *)
(* the first category (in enum order) that the repository's score card of  *)
(* the player has not set, so that score cards fill up.                    *)

\* the categories not set in the repository's score card of playerId
OpenInRepository(playerId) ==
    { i \in 1 .. Len(ScoreCategory) :
        getScoreCardByPlayerId(dbScoreCards, playerId)[ScoreCategory[i]] = NULL }

FirstOpen(playerId) ==
    ScoreCategory[CHOOSE i \in OpenInRepository(playerId) :
                    \A j \in OpenInRepository(playerId) : i <= j]

ScoreFirstOpen ==
    \E p \in PlayerIds :
        /\ OpenInRepository(p) # {}
        /\ scoreCategory(p, FirstOpen(p))
        /\ last'.ok
        /\ RoundBound(MaxRoundFull)
        /\ UNCHANGED aux

PassTurnFull ==
    \E p \in PlayerIds :
        passTurn(p) /\ last'.ok /\ RoundBound(MaxRoundFull) /\ UNCHANGED aux

NextFull ==
    \/ JoinGame
    \/ StartGame
    \/ ScoreFirstOpen
    \/ PassTurnFull
    \/ RestartGame

SpecFull == Init /\ [][NextFull]_vars

----------------------------------------------------------------------------
(* SpecTurn: the turn sequence.  `turns` holds the active participant and  *)
(* the round of the snapshot before the first and after each of the        *)
(* latest consecutive turn advances (at most one per participant); any     *)
(* other operation starts the history again.                               *)

\* the active participant and the round the snapshot shows
Snap(g) == [ currentPlayerId |-> g.currentPlayerId, currentRound |-> g.currentRound ]

\* the last n entries of a sequence
LastN(s, n) == IF Len(s) <= n THEN s ELSE SubSeq(s, Len(s) - n + 1, Len(s))

\* a turn advance of an active room has been handled
Advanced ==
    /\ games.status = "in_progress"
    /\ games'.status = "in_progress"
    /\ last'.ok
    /\ RoundBound(MaxRound)
    /\ turns' = LastN(Append(turns, Snap(games')), Len(games'.players) + 1)
    /\ UNCHANGED << pending, outbox, created, scorecardView, rollsInTurn >>

\* another operation has been handled
Interrupted ==
    /\ last'.ok
    /\ turns' = IF games'.status = "in_progress" THEN << Snap(games') >> ELSE << >>
    /\ UNCHANGED << pending, outbox, created, scorecardView, rollsInTurn >>

PassTurnAdvance == \E p \in PlayerIds : passTurn(p) /\ Advanced

ScoreAdvance == \E p \in PlayerIds, c \in ScoreInputs : scoreCategory(p, c) /\ Advanced

JoinGameTurn == \E u \in Users : joinGame(u) /\ Interrupted

StartGameTurn == \E h \in Users : startGame(h) /\ Interrupted

RollDiceTurn ==
    \E p \in PlayerIds, sel \in HoldInputs, new \in RollOutcomes :
        rollDice(p, sel, new) /\ Interrupted

DisconnectTurn ==
    \E p \in PlayerIds :
        /\ handlePlayerDisconnect(p)
        /\ Done("disconnect", p)
        /\ RoundBound(MaxRound)
        /\ Interrupted
        /\ UNCHANGED << playerConnections, wsPlayerId >>

NextTurn ==
    \/ JoinGameTurn
    \/ StartGameTurn
    \/ RollDiceTurn
    \/ PassTurnAdvance
    \/ ScoreAdvance
    \/ DisconnectTurn

SpecTurn == Init /\ [][NextTurn]_vars

----------------------------------------------------------------------------
(* SpecConn: connections.  A message is handled for the player its         *)
(* connection has registered; the close of a player's last connection      *)
(* runs handlePlayerDisconnect.                                            *)

RegisterPlayer ==
    \E s \in Sockets, p \in 1 .. MaxUsers :
        registerPlayerConnection(s, p) /\ UNCHANGED aux

CloseConnection ==
    \E s \in Sockets : closeConnection(s) /\ RoundBound(MaxRound) /\ UNCHANGED aux

\* the players with a registered connection
Registered == { wsPlayerId[s] : s \in Sockets } \ {0}

RollDiceConn ==
    \E p \in Registered, sel \in HoldInputs, new \in RollOutcomes :
        rollDice(p, sel, new) /\ UNCHANGED aux

PassTurnConn ==
    \E p \in Registered : passTurn(p) /\ RoundBound(MaxRound) /\ UNCHANGED aux

NextConn ==
    \/ JoinGame
    \/ StartGame
    \/ RegisterPlayer
    \/ CloseConnection
    \/ RollDiceConn
    \/ PassTurnConn

SpecConn == Init /\ [][NextConn]_vars

----------------------------------------------------------------------------
(* SpecIdle: the participant whose turn it is sends nothing.  The room is  *)
(* started once, the interval callback runs again and again (weak          *)
(* fairness: setInterval keeps firing while the timer is set), and the     *)
(* other participants toggle their ready flag or rejoin.                   *)

\* the user of the participant whose turn it is (0: nobody's turn)
ActiveUser ==
    IF games.currentPlayerId \in DOMAIN games.players
    THEN games.players[games.currentPlayerId].userId
    ELSE 0

StartGameOnce ==
    \E h \in Users :
        games.status = "waiting" /\ startGame(h) /\ last'.ok /\ UNCHANGED aux

JoinGameOther ==
    \E u \in Users : u # ActiveUser /\ joinGame(u) /\ last'.ok /\ UNCHANGED aux

ToggleReadyOther ==
    \E p \in PlayerIds :
        /\ p # games.currentPlayerId
        /\ togglePlayerReady(p)
        /\ last'.ok
        /\ UNCHANGED aux

RollDiceOther ==
    \E p \in PlayerIds, sel \in HoldInputs, new \in RollOutcomes :
        p # games.currentPlayerId /\ rollDice(p, sel, new) /\ UNCHANGED aux

NextIdle ==
    \/ StartGameOnce
    \/ JoinGameOther
    \/ ToggleReadyOther
    \/ RollDiceOther
    \/ TimerTick

SpecIdle == Init /\ [][NextIdle]_vars /\ WF_vars(TimerTick)

----------------------------------------------------------------------------
(* SpecJoin: JoinRoom requests that overlap.  With the database storage    *)
(* every repository call of joinGame is a round trip to the database, and  *)
(* the handler of another request runs while one is awaited.  A join of a  *)
(* new user is split where it has read the players of the room and has not *)
(* yet created its own.                                                    *)

\* users that send join requests
MaxJoinUsers == 3
\* join requests that are handled at the same time
MaxPending == 2

JoinUsers == 1 .. MaxJoinUsers

\* joinGame of a new user up to the await of getPlayersByGameId: the game
\* record and the turn order it has computed are local to the run
joinGameRead(req, userId) ==
    /\ \A r \in pending : r.req # req
    /\ dbGame.status = "waiting" \/ dbGame.status = "in_progress"
    /\ getPlayerByGameAndUser(dbPlayers, userId) = 0
    /\ pending' = pending \cup { [ req |-> req, userId |-> userId, game |-> dbGame,
                                   turnOrder |-> Len(dbPlayers) + 1 ] }
    /\ UNCHANGED << dbGame, dbPlayers, dbScoreCards, games, turnTimers,
                    playerConnections, wsPlayerId, last, turns, created, scorecardView, rollsInTurn, outbox >>

\* the rest of that joinGame: createPlayer, createScoreCard and the
\* snapshot built from the game record read at the start
joinGameWrite(r) ==
    /\ dbPlayers' = Append(dbPlayers, NewPlayer(r.userId, r.turnOrder))
    /\ dbScoreCards' = Append(dbScoreCards, NewScoreCard(Len(dbPlayers) + 1))
    /\ games' = initializeGameState(r.game, dbPlayers', dbScoreCards')
    /\ pending' = pending \ {r}
    /\ Done("joinGame", r.userId)
    /\ UNCHANGED << dbGame, turnTimers, playerConnections, wsPlayerId, turns, created, scorecardView, rollsInTurn, outbox >>

JoinRead == \E req \in 1 .. MaxPending, u \in JoinUsers : joinGameRead(req, u)

JoinWrite == \E r \in pending : joinGameWrite(r)

NextJoin ==
    \/ JoinRead
    \/ JoinWrite
    \/ JoinGame
    \/ StartGame
    \/ PassTurn

SpecJoin == Init /\ [][NextJoin]_vars

----------------------------------------------------------------------------
(* SpecSend: what the server sends.  `outbox` holds the connections that   *)
(* the event handled last has sent a GAME_UPDATE or an ERROR to, and the   *)
(* connections whose send has thrown.                                      *)

\* the elements of a set of connections, in the order they are iterated
RECURSIVE SetToSeq(_)
SetToSeq(S) ==
    IF S = {} THEN << >>
    ELSE LET m == CHOOSE x \in S : \A y \in S : x <= y
         IN  << m >> \o SetToSeq(S \ {m})

\* the connections broadcastGameUpdate goes through: for each player of
\* the snapshot, in order, the connections kept under the key player.userId
RECURSIVE broadcastTargets(_, _, _)
broadcastTargets(g, connections, i) ==
    IF i > Len(g.players) THEN << >>
    ELSE LET key == g.players[i].userId
         IN  (IF key \in DOMAIN connections THEN SetToSeq(connections[key]) ELSE << >>)
             \o broadcastTargets(g, connections, i + 1)

\* a loop that gives up at the first send that throws
RECURSIVE sendAll_StopAtFailure(_, _)
sendAll_StopAtFailure(sockets, failing) ==
    IF sockets = << >> \/ Head(sockets) \in failing THEN {}
    ELSE { Head(sockets) } \cup sendAll_StopAtFailure(Tail(sockets), failing)

\* the loop over the connections: a send that throws is caught and logged,
\* and the loop goes on; the connections that have been sent the snapshot
RECURSIVE sendAll(_, _)
sendAll(sockets, failing) ==
    IF sockets = << >> THEN {}
    ELSE (IF Head(sockets) \in failing THEN {} ELSE { Head(sockets) })
         \cup sendAll(Tail(sockets), failing)

\* broadcastGameUpdate: the connections that are sent the snapshot g
broadcastGameUpdate(g, connections, failing) ==
    sendAll(broadcastTargets(g, connections, 1), failing)

\* the set of the elements of a sequence
Range(f) == { f[i] : i \in DOMAIN f }

\* the route has broadcast the new snapshot; the sends to `failing` throw
Broadcast(from, failing) ==
    outbox' = [ from    |-> from,
                updates |-> broadcastGameUpdate(games', playerConnections', failing),
                failed  |-> failing \cap Range(broadcastTargets(games', playerConnections', 1)),
                errors  |-> {} ]

\* the route has only logged (console.error) that the action failed
LogOnly(from) == outbox' = [ NoMessages EXCEPT !.from = from ]

\* the end of a route: broadcast when the handler returned a state
Respond(from) ==
    /\ IF last'.ok
       THEN \E failing \in SUBSET Sockets : Broadcast(from, failing)
       ELSE LogOnly(from)
    /\ UNCHANGED << turns, created, scorecardView, rollsInTurn, pending >>

\* REGISTER_PLAYER: the connection is registered and sent the snapshot
RegisterSend ==
    \E s \in Sockets, p \in 1 .. MaxUsers :
        /\ registerPlayerConnection(s, p)
        /\ outbox' = [ NoMessages EXCEPT !.from = s, !.updates = {s} ]
        /\ UNCHANGED << turns, created, scorecardView, rollsInTurn, pending >>

\* an action on a connection that has not registered: ERROR to it
NotAuthenticated ==
    \E s \in Sockets :
        /\ wsPlayerId[s] = 0
        /\ Rejected("notAuthenticated", 0)
        /\ outbox' = [ NoMessages EXCEPT !.from = s, !.errors = {s} ]
        /\ UNCHANGED << turns, created, scorecardView, rollsInTurn, pending >>

JoinGameSend == \E u \in Users : joinGame(u) /\ Respond(0)

\* START_GAME: the route passes on the hostId the message carries, whatever
\* player the connection is registered for
StartGameSend ==
    \E s \in Sockets, h \in Users :
        wsPlayerId[s] # 0 /\ startGame(h) /\ Respond(s)

\* RESTART_GAME: like START_GAME, the hostId is a field of the message
RestartGameSend ==
    \E s \in Sockets, h \in Users :
        /\ wsPlayerId[s] # 0
        /\ Restarts < MaxRestarts
        /\ restartGame(h)
        /\ Respond(s)

RollDiceSend ==
    \E s \in Sockets, sel \in HoldInputs, new \in RollOutcomes :
        wsPlayerId[s] # 0 /\ rollDice(wsPlayerId[s], sel, new) /\ Respond(s)

PassTurnSend ==
    \E s \in Sockets :
        wsPlayerId[s] # 0 /\ passTurn(wsPlayerId[s]) /\ RoundBound(MaxRound) /\ Respond(s)

\* the close of a connection; handlePlayerDisconnect broadcasts
CloseSend ==
    \E s \in Sockets :
        /\ closeConnection(s)
        /\ RoundBound(MaxRound)
        /\ IF last'.op = "disconnect"
           THEN \E failing \in SUBSET Sockets : Broadcast(s, failing)
           ELSE LogOnly(s)
        /\ UNCHANGED << turns, created, scorecardView, rollsInTurn, pending >>

NextSend ==
    \/ RegisterSend
    \/ NotAuthenticated
    \/ JoinGameSend
    \/ StartGameSend
    \/ RestartGameSend
    \/ RollDiceSend
    \/ PassTurnSend
    \/ CloseSend

SpecSend == Init /\ [][NextSend]_vars

----------------------------------------------------------------------------
(* SpecDice: the dice of a roll.  The dice roller hands back five values,  *)
(* any of which may be unusable, or fails altogether; Math.random stands   *)
(* in for every value that cannot be used.                                 *)

\* what the dice roller hands back: five values (0 and 7 are out of range,
\* NULL is a roll without a numeric value), or an exception
RollerResults ==
    { [ ok |-> TRUE,  values |-> << 2, 2, 3, 3, 3 >> ],
      [ ok |-> TRUE,  values |-> << 0, 7, NULL, 3, 3 >> ],
      [ ok |-> FALSE, values |-> << >> ] }

\* the faces Math.floor(Math.random() * 6) + 1 draws
MathRandom == { << 4, 5, 6, 4, 5 >> }

\* hold masks a ROLL_DICE message carries
HoldMasks ==
    { NoSelection,
      << TRUE, TRUE, FALSE, FALSE, FALSE >>,
      << FALSE, FALSE, FALSE, TRUE, TRUE >> }

\* the faces of a roll that takes the values of the dice roller as they are
newDiceValues_NoRangeCheck(rolled, random) ==
    IF rolled.ok THEN rolled.values ELSE random

\* the faces of a roll: the value of the dice roller where it is a number
\* in 1..6, the Math.random draw otherwise and when the dice roller fails
newDiceValues(rolled, random) ==
    IF rolled.ok
    THEN [ i \in DiceIdx |->
             IF rolled.values[i] >= 1 /\ rolled.values[i] <= 6
             THEN rolled.values[i]
             ELSE random[i] ]
    ELSE random

RollDiceRoller ==
    \E p \in PlayerIds, sel \in HoldMasks, rolled \in RollerResults, random \in MathRandom :
        rollDice(p, sel, newDiceValues(rolled, random)) /\ last'.ok /\ UNCHANGED aux

NextDice ==
    \/ JoinGame
    \/ StartGame
    \/ RollDiceRoller
    \/ PassTurn

SpecDice == Init /\ [][NextDice]_vars

----------------------------------------------------------------------------
(* SpecOverlap: two PASS_TURN messages whose handling overlaps.  With the  *)
(* database storage every await of passTurn is a round trip, and the       *)
(* message handler of routes.ts is started for the next message while the  *)
(* first is waiting.  A run is a record of `pending`: its position pc, the *)
(* locals it holds, the state `start` it began in, and whether it has      *)
(* returned a state.  The room is set up with whole handlers first; once a *)
(* run has begun, only the two runs take steps.                            *)

\* the state of the room in the repository and in memory
Now ==
    [ dbGame       |-> dbGame,
      dbPlayers    |-> dbPlayers,
      dbScoreCards |-> dbScoreCards,
      games        |-> games,
      turnTimers   |-> turnTimers ]

\* the room after a whole passTurn of player playerId in room state S
passTurnOn(S, playerId) ==
    IF S.games.currentPlayerId = playerId /\ playerId \in DOMAIN S.games.players
    THEN LET game == MoveToNextPlayer(S.dbGame, S.dbPlayers,
                                      S.games.players[playerId].turnOrder)
         IN  [ S EXCEPT !.dbGame = game,
                        !.games = initializeGameState(game, S.dbPlayers, S.dbScoreCards),
                        !.turnTimers = (IF @ > 0 THEN @ - 1 ELSE 0) + 1 ]
    ELSE S

\* "Reset dice and rolls for next player" and resetTurnTimer
resetTurn ==
    /\ games' = [ games EXCEPT !.currentDice = DefaultDice,
                               !.rollsLeft = MAX_ROLLS_PER_TURN,
                               !.selectedDice = NoSelection,
                               !.turnTimer = TURN_TIMER_DURATION ]
    /\ turnTimers' = startTurnTimer

\* passTurn up to its first await: the checks against the snapshot
passTurnBegin(req, playerId) ==
    /\ req = Cardinality(pending) + 1
    /\ games.status = "in_progress"
    /\ LET run == [ req |-> req, playerId |-> playerId, start |-> Now,
                    turnOrder |-> 0, next |-> 0, round |-> 0,
                    pc |-> "done", ok |-> FALSE ]
       IN  IF ~ passTurnAccepted(playerId)
           THEN /\ pending' = pending \cup { run }
                /\ Rejected("passTurn", playerId)
           ELSE /\ pending' = pending \cup
                      { [ run EXCEPT !.turnOrder = games.players[playerId].turnOrder,
                                     !.pc = "getNextPlayer" ] }
                /\ UNCHANGED << dbGame, dbPlayers, dbScoreCards, games, turnTimers,
                                playerConnections, wsPlayerId, last >>
    /\ UNCHANGED << turns, created, scorecardView, rollsInTurn, outbox >>

\* the run r goes on from the await it is waiting at to the next one
passTurnResume(r) ==
    LET goes(q) == pending' = (pending \ {r}) \cup {q}
    IN  /\ r.pc # "done"
        /\ CASE r.pc = "getNextPlayer" ->
                  LET nextPlayer == getNextPlayer(dbPlayers, r.turnOrder)
                  IN  IF nextPlayer = 0
                      THEN /\ resetTurn
                           /\ goes([ r EXCEPT !.pc = "getGame" ])
                           /\ UNCHANGED << dbGame, last >>
                      ELSE /\ goes([ r EXCEPT !.next = nextPlayer, !.pc = "updateGame" ])
                           /\ UNCHANGED << dbGame, games, turnTimers, last >>
             [] r.pc = "updateGame" ->
                  /\ dbGame' = [ dbGame EXCEPT !.currentPlayerId = r.next ]
                  /\ IF dbPlayers[r.next].turnOrder = 1
                     THEN /\ goes([ r EXCEPT !.pc = "getRound" ])
                          /\ UNCHANGED << games, turnTimers >>
                     ELSE /\ resetTurn
                          /\ goes([ r EXCEPT !.pc = "getGame" ])
                  /\ UNCHANGED last
             [] r.pc = "getRound" ->
                  /\ goes([ r EXCEPT !.round = dbGame.currentRound, !.pc = "updateRound" ])
                  /\ UNCHANGED << dbGame, games, turnTimers, last >>
             [] r.pc = "updateRound" ->
                  /\ dbGame' = [ dbGame EXCEPT !.currentRound = r.round + 1 ]
                  /\ resetTurn
                  /\ goes([ r EXCEPT !.pc = "getGame" ])
                  /\ UNCHANGED last
             [] r.pc = "getGame" ->
                  /\ games' = initializeGameState(dbGame, dbPlayers, dbScoreCards)
                  /\ goes([ r EXCEPT !.pc = "done", !.ok = TRUE ])
                  /\ Done("passTurn", r.playerId)
                  /\ UNCHANGED << dbGame, turnTimers >>
        /\ UNCHANGED << dbPlayers, dbScoreCards, playerConnections, wsPlayerId,
                        turns, created, scorecardView, rollsInTurn, outbox >>

\* the handlers that set the room up, none of them overlapping
SetUp ==
    /\ pending = {}
    /\ JoinGame \/ StartGame \/ PassTurn

PassTurnBegin ==
    \E req \in 1 .. MaxPending, p \in PlayerIds : passTurnBegin(req, p)

PassTurnResume ==
    \E r \in pending : passTurnResume(r) /\ RoundBound(MaxRound)

NextOverlap ==
    \/ SetUp
    \/ PassTurnBegin
    \/ PassTurnResume

SpecOverlap == Init /\ [][NextOverlap]_vars

----------------------------------------------------------------------------
(* SpecFail: a SCORE_CATEGORY during which a write to the repository       *)
(* fails.  The writes of scoreCategory are separate statements with no     *)
(* transaction around them; a write that throws ends the run in the catch  *)
(* branch, and an updatePlayer that finds no row ends it with a return.    *)

\* the writes of scoreCategory, in the order they are made
FailPoints ==
    { "updateScoreCard", "updatePlayer", "updateGame", "updateGame.currentRound" }

\* scoreCategory of player playerId whose write failAt fails: the writes
\* made before it stay, the snapshot and the timer are as before, and the
\* handler returns undefined
scoreCategoryFails(playerId, category, failAt) ==
    /\ games.currentPlayerId = playerId
    /\ playerId \in DOMAIN games.players
    /\ games.players[playerId].scoreCard[category] = NULL
    /\ LET player == games.players[playerId]
           score  == calculateScore(games.currentDice, category)
           cards  == updateScoreCard(dbScoreCards, playerId, category, score)
           plrs   == [ dbPlayers EXCEPT ![playerId].score = player.score + score ]
           nextPlayer == getNextPlayer(plrs, player.turnOrder)
       IN  CASE failAt = "updateScoreCard" ->
                  UNCHANGED << dbScoreCards, dbPlayers, dbGame >>
             [] failAt = "updatePlayer" ->
                  /\ dbScoreCards' = cards
                  /\ UNCHANGED << dbPlayers, dbGame >>
             [] failAt = "updateGame" ->
                  /\ dbScoreCards' = cards
                  /\ dbPlayers' = plrs
                  /\ UNCHANGED dbGame
             [] failAt = "updateGame.currentRound" ->
                  /\ ~ checkGameCompletion(dbGame, plrs, cards)
                  /\ nextPlayer # 0
                  /\ plrs[nextPlayer].turnOrder = 1
                  /\ dbScoreCards' = cards
                  /\ dbPlayers' = plrs
                  /\ dbGame' = [ dbGame EXCEPT !.currentPlayerId = nextPlayer ]
    /\ last' = [ op |-> "scoreCategory", by |-> playerId, ok |-> FALSE ]
    /\ UNCHANGED << games, turnTimers, playerConnections, wsPlayerId >>

ScoreCategoryFails ==
    \E p \in PlayerIds, c \in ScoreInputs, failAt \in FailPoints :
        scoreCategoryFails(p, c, failAt) /\ UNCHANGED aux

NextFail ==
    \/ JoinGame
    \/ StartGame
    \/ ScoreCategoryMsg
    \/ PassTurn
    \/ ScoreCategoryFails

SpecFail == Init /\ [][NextFail]_vars

----------------------------------------------------------------------------
(* SpecCreate: more rooms.  POST /api/games makes a room with the code     *)
(* generateGameCode draws; the rooms made so far are kept in `created`.    *)

\* rooms in all
MaxGames == 3

\* the codes generateGameCode can draw (six random characters in the code)
MaxCodes == 2

Codes == 1 .. MaxCodes

\* createGame of user hostId; gameCode is what generateGameCode has drawn.
\* The code is not compared with the codes of the rooms that exist: the
\* insert of a code that exists is refused where the games table has its
\* unique index (unique), and goes through in the in-memory storages
createGame(hostId, gameCode, unique) ==
    /\ Len(created) < MaxGames
    /\ IF unique /\ \E i \in DOMAIN created : created[i].code = gameCode
       THEN /\ last' = [ op |-> "createGame", by |-> hostId, ok |-> FALSE ]
            /\ UNCHANGED created
       ELSE /\ created' = Append(created, NewGame(gameCode, hostId))
            /\ Done("createGame", hostId)
    /\ UNCHANGED << dbGame, dbPlayers, dbScoreCards, games, turnTimers,
                    playerConnections, wsPlayerId, turns, pending, outbox,
                    scorecardView, rollsInTurn >>

CreateGame ==
    \E h \in Users, code \in Codes, unique \in BOOLEAN : createGame(h, code, unique)

NextCreate ==
    \/ CreateGame
    \/ JoinGame
    \/ StartGame
    \/ PassTurn

SpecCreate == Init /\ [][NextCreate]_vars

----------------------------------------------------------------------------
(* SpecScore: the scoring of every combination of five faces.  The host    *)
(* has started the room alone and has rolled once, holding nothing; the    *)
(* dice show any of the 6^5 combinations.  The host scores them in any of  *)
(* the categories.                                                         *)

\* all combinations of five faces
AllDice == [ DiceIdx -> 1 .. 6 ]

InitScore ==
    \E h \in {MaxUsers}, dice \in AllDice :
        LET game == [ CreatedGame(h) EXCEPT !.status = "in_progress",
                                            !.currentPlayerId = 1 ]
        IN  /\ dbGame = game
            /\ dbPlayers = << NewPlayer(h, 1) >>
            /\ dbScoreCards = << NewScoreCard(1) >>
            /\ games = [ initializeGameState(game, << NewPlayer(h, 1) >>,
                                             << NewScoreCard(1) >>)
                           EXCEPT !.currentDice = dice,
                                  !.rollsLeft = MAX_ROLLS_PER_TURN - 1 ]
            /\ turnTimers = 1
            /\ playerConnections = [ k \in 1 .. MaxUsers |-> {} ]
            /\ wsPlayerId = [ s \in Sockets |-> 0 ]
            /\ last = [ op |-> "rollDice", by |-> 1, ok |-> TRUE ]
            /\ turns = << >>
            /\ pending = {}
            /\ outbox = NoMessages
            /\ created = << NewGame(1, h) >>
            /\ scorecardView = Scorecard(EmptyCard)
            /\ rollsInTurn = 1

ScoreRolledDice ==
    \E c \in Categories :
        /\ last.op = "rollDice"
        /\ scoreCategory(1, c)
        /\ UNCHANGED aux

NextScore == ScoreRolledDice

SpecScore == InitScore /\ [][NextScore]_vars

----------------------------------------------------------------------------
(* SpecTotal: the totals the client shows.  The host plays alone and has   *)
(* scored some of the categories, each with a value its dice can give; the *)
(* upper section comes to 62, 63 and more.  The Scorecard component then   *)
(* renders the score card of the snapshot.                                 *)

\* score cards a snapshot can hold: per category not set, or a value that
\* calculateScore gives and formatScoreCard passes on
CardInputs ==
    [ ones           : { NULL, 2, 3 },
      twos           : { NULL, 6 },
      threes         : { NULL, 9 },
      fours          : { NULL, 12 },
      fives          : { NULL, 15 },
      sixes          : { NULL, 18, 24 },
      threeOfAKind   : { NULL, 14 },
      fourOfAKind    : { NULL },
      fullHouse      : { NULL, 25 },
      smallStraight  : { NULL, 30 },
      largeStraight  : { NULL, 40 },
      yacht          : { NULL, 50 },
      chance         : { NULL, 17 } ]

InitTotal ==
    \E h \in {MaxUsers}, card \in CardInputs :
        LET scored == Cardinality({ c \in Categories : card[c] # NULL })
            game   == [ CreatedGame(h) EXCEPT !.status = "in_progress",
                                              !.currentPlayerId = 1,
                                              !.currentRound = 1 + scored ]
            plrs   == << [ NewPlayer(h, 1) EXCEPT
                             !.score = SumCategories(card, 1, Len(ScoreCategory)) ] >>
            cards  == << [ playerId |-> 1, card |-> card ] >>
        IN  /\ dbGame = game
            /\ dbPlayers = plrs
            /\ dbScoreCards = cards
            /\ games = initializeGameState(game, plrs, cards)
            /\ turnTimers = 1
            /\ playerConnections = [ k \in 1 .. MaxUsers |-> {} ]
            /\ wsPlayerId = [ s \in Sockets |-> 0 ]
            /\ last = [ op |-> "scoreCategory", by |-> 1, ok |-> TRUE ]
            /\ turns = << >>
            /\ pending = {}
            /\ outbox = NoMessages
            /\ created = << NewGame(1, h) >>
            /\ scorecardView = Scorecard(EmptyCard)
            /\ rollsInTurn = 0

\* the client renders the score card of the host
ShowScorecard ==
    /\ scorecardView' = Scorecard(games.players[1].scoreCard)
    /\ UNCHANGED << dbGame, dbPlayers, dbScoreCards, games, turnTimers,
                    playerConnections, wsPlayerId, last, turns, created,
                    pending, outbox, rollsInTurn >>

NextTotal == ShowScorecard

SpecTotal == InitTotal /\ [][NextTotal]_vars

----------------------------------------------------------------------------
(* SpecRolls: the rolls of one turn.  `rollsInTurn` counts the ROLL_DICE   *)
(* messages accepted since the active participant's turn began; a turn     *)
(* begins when the room is started and whenever the turn is passed on (by  *)
(* PASS_TURN, by SCORE_CATEGORY or by the turn timer).  Between the rolls  *)
(* users join or rejoin, participants toggle their ready flag, and the     *)
(* last connection of a participant who is not active closes.              *)

\* the rolls of one turn the runs are followed for
MaxRolls == 4

\* the history variables other than rollsInTurn
auxRolls == << turns, created, scorecardView, pending, outbox >>

SameTurn == UNCHANGED << rollsInTurn, auxRolls >>

NewTurn == rollsInTurn' = 0 /\ UNCHANGED auxRolls

StartGameRolls ==
    \E h \in Users :
        games.status = "waiting" /\ startGame(h) /\ last'.ok /\ NewTurn

RollDiceRolls ==
    \E p \in PlayerIds, sel \in HoldInputs, new \in RollOutcomes :
        /\ rollsInTurn < MaxRolls
        /\ rollDice(p, sel, new)
        /\ last'.ok
        /\ rollsInTurn' = rollsInTurn + 1
        /\ UNCHANGED auxRolls

JoinGameRolls == \E u \in Users : joinGame(u) /\ last'.ok /\ SameTurn

ToggleReadyRolls ==
    \E p \in PlayerIds : togglePlayerReady(p) /\ last'.ok /\ SameTurn

DisconnectRolls ==
    \E p \in PlayerIds :
        /\ p # games.currentPlayerId
        /\ p # dbGame.currentPlayerId
        /\ handlePlayerDisconnect(p)
        /\ Done("disconnect", p)
        /\ UNCHANGED << playerConnections, wsPlayerId >>
        /\ SameTurn

PassTurnRolls ==
    \E p \in PlayerIds :
        passTurn(p) /\ last'.ok /\ RoundBound(MaxRound) /\ NewTurn

ScoreCategoryRolls ==
    \E p \in PlayerIds, c \in ScoreInputs :
        scoreCategory(p, c) /\ last'.ok /\ RoundBound(MaxRound) /\ NewTurn

TimerTickRolls ==
    /\ timerTick
    /\ RoundBound(MaxRound)
    /\ rollsInTurn' = IF last'.op = "timerExpired" THEN 0 ELSE rollsInTurn
    /\ UNCHANGED auxRolls

NextRolls ==
    \/ StartGameRolls
    \/ RollDiceRolls
    \/ JoinGameRolls
    \/ ToggleReadyRolls
    \/ DisconnectRolls
    \/ PassTurnRolls
    \/ ScoreCategoryRolls
    \/ TimerTickRolls

SpecRolls == Init /\ [][NextRolls]_vars

----------------------------------------------------------------------------
(* SpecTwice: two SCORE_CATEGORY messages whose handling overlaps, as the  *)
(* PASS_TURN messages of SpecOverlap do.  A run of `pending` holds its     *)
(* position pc, the locals scoreCategory computes before its first await   *)
(* (score, the player's score and turn order as the snapshot shows them),  *)
(* the round of the repository when it began, whether it began while       *)
(* another run was under way (overlaps), and what it has written so far.   *)

\* the categories the two messages name
TwiceInputs == { ScoreCategory[1], ScoreCategory[2] }

\* the runs that have passed the checks and not yet returned
UnderWay == { r \in pending : r.pc # "done" }

\* scoreCategory up to its first await: the checks against the snapshot
\* and calculateScore
scoreCategoryBegin(req, playerId, category) ==
    /\ req = Cardinality(pending) + 1
    /\ games.status = "in_progress"
    /\ LET run == [ req |-> req, playerId |-> playerId, category |-> category,
                    score |-> 0, playerScore |-> 0, turnOrder |-> 0,
                    next |-> 0, round |-> 0, began |-> dbGame.currentRound,
                    overlaps |-> UnderWay # {}, wrote |-> FALSE,
                    pc |-> "done", ok |-> FALSE ]
       IN  IF \/ games.currentPlayerId # playerId
              \/ playerId \notin DOMAIN games.players
           THEN /\ pending' = pending \cup { run }
                /\ Rejected("scoreCategory", playerId)
           ELSE IF games.players[playerId].scoreCard[category] # NULL
           THEN /\ pending' = pending \cup { run }
                /\ Rejected("scoreCategory", playerId)
           ELSE /\ pending' = pending \cup
                      { [ run EXCEPT
                            !.score = calculateScore(games.currentDice, category),
                            !.playerScore = games.players[playerId].score,
                            !.turnOrder = games.players[playerId].turnOrder,
                            !.pc = "updateScoreCard" ] }
                /\ UNCHANGED << dbGame, dbPlayers, dbScoreCards, games, turnTimers,
                                playerConnections, wsPlayerId, last >>
    /\ UNCHANGED << turns, created, scorecardView, rollsInTurn, outbox >>

\* the run r goes on from the await it is waiting at to the next one
scoreCategoryResume(r) ==
    LET goes(q) == pending' = (pending \ {r}) \cup {q}
    IN  /\ r.pc # "done"
        /\ CASE r.pc = "updateScoreCard" ->
                  /\ dbScoreCards' = updateScoreCard(dbScoreCards, r.playerId,
                                                     r.category, r.score)
                  /\ goes([ r EXCEPT !.wrote = TRUE, !.pc = "updatePlayer" ])
                  /\ UNCHANGED << dbPlayers, dbGame, games, turnTimers, last >>
             [] r.pc = "updatePlayer" ->
                  /\ dbPlayers' = [ dbPlayers EXCEPT
                                      ![r.playerId].score = r.playerScore + r.score ]
                  /\ goes([ r EXCEPT !.pc = "checkGameCompletion" ])
                  /\ UNCHANGED << dbScoreCards, dbGame, games, turnTimers, last >>
             [] r.pc = "checkGameCompletion" ->
                  /\ goes([ r EXCEPT !.pc =
                              IF checkGameCompletion(dbGame, dbPlayers, dbScoreCards)
                              THEN "updateGame.status" ELSE "getNextPlayer" ])
                  /\ UNCHANGED << dbScoreCards, dbPlayers, dbGame, games,
                                  turnTimers, last >>
             [] r.pc = "updateGame.status" ->
                  /\ dbGame' = [ dbGame EXCEPT !.status = "completed" ]
                  /\ turnTimers' = clearTurnTimer
                  /\ goes([ r EXCEPT !.pc = "getGame" ])
                  /\ UNCHANGED << dbScoreCards, dbPlayers, games, last >>
             [] r.pc = "getNextPlayer" ->
                  LET nextPlayer == getNextPlayer(dbPlayers, r.turnOrder)
                  IN  IF nextPlayer = 0
                      THEN /\ resetTurn
                           /\ goes([ r EXCEPT !.pc = "getGame" ])
                           /\ UNCHANGED << dbScoreCards, dbPlayers, dbGame, last >>
                      ELSE /\ goes([ r EXCEPT !.next = nextPlayer, !.pc = "updateGame" ])
                           /\ UNCHANGED << dbScoreCards, dbPlayers, dbGame, games,
                                           turnTimers, last >>
             [] r.pc = "updateGame" ->
                  /\ dbGame' = [ dbGame EXCEPT !.currentPlayerId = r.next ]
                  /\ IF dbPlayers[r.next].turnOrder = 1
                     THEN /\ goes([ r EXCEPT !.pc = "getRound" ])
                          /\ UNCHANGED << games, turnTimers >>
                     ELSE /\ resetTurn
                          /\ goes([ r EXCEPT !.pc = "getGame" ])
                  /\ UNCHANGED << dbScoreCards, dbPlayers, last >>
             [] r.pc = "getRound" ->
                  /\ goes([ r EXCEPT !.round = dbGame.currentRound, !.pc = "updateRound" ])
                  /\ UNCHANGED << dbScoreCards, dbPlayers, dbGame, games,
                                  turnTimers, last >>
             [] r.pc = "updateRound" ->
                  /\ dbGame' = [ dbGame EXCEPT !.currentRound = r.round + 1 ]
                  /\ resetTurn
                  /\ goes([ r EXCEPT !.pc = "getGame" ])
                  /\ UNCHANGED << dbScoreCards, dbPlayers, last >>
             [] r.pc = "getGame" ->
                  /\ games' = initializeGameState(dbGame, dbPlayers, dbScoreCards)
                  /\ goes([ r EXCEPT !.pc = "done", !.ok = TRUE ])
                  /\ Done("scoreCategory", r.playerId)
                  /\ UNCHANGED << dbScoreCards, dbPlayers, dbGame, turnTimers >>
        /\ UNCHANGED << playerConnections, wsPlayerId,
                        turns, created, scorecardView, rollsInTurn, outbox >>

\* the handlers that set the room up, none of them overlapping
SetUpTwice ==
    /\ pending = {}
    /\ JoinGame \/ StartGame \/ RollDice \/ PassTurn \/ ScoreCategoryMsg

ScoreCategoryBegin ==
    \E req \in 1 .. MaxPending, p \in PlayerIds, c \in TwiceInputs :
        scoreCategoryBegin(req, p, c)

ScoreCategoryResume ==
    \E r \in pending : scoreCategoryResume(r) /\ RoundBound(MaxRound)

NextTwice ==
    \/ SetUpTwice
    \/ ScoreCategoryBegin
    \/ ScoreCategoryResume

SpecTwice == Init /\ [][NextTwice]_vars

----------------------------------------------------------------------------
(* SpecDone: the room after its completion.  One game is played to its    *)
(* end: users join the waiting room, the room is started once, and every   *)
(* turn ends with the SCORE_CATEGORY of ScoreFirstOpen.  In the completed  *)
(* room come the messages of the game, the turn timer and the closing of a *)
(* participant's last connection.                                          *)

Completed == dbGame.status = "completed"

JoinGameWaiting ==
    \E u \in Users :
        dbGame.status = "waiting" /\ joinGame(u) /\ last'.ok /\ UNCHANGED aux

RollDiceDone ==
    \E p \in PlayerIds, new \in RollOutcomes :
        Completed /\ rollDice(p, NoSelection, new) /\ last'.ok /\ UNCHANGED aux

SelectDiceDone ==
    \E p \in PlayerIds, idx \in SelectInputs :
        Completed /\ selectDice(p, idx) /\ last'.ok /\ UNCHANGED aux

ScoreCategoryDone ==
    \E p \in PlayerIds, c \in TwiceInputs :
        /\ Completed
        /\ scoreCategory(p, c)
        /\ last'.ok
        /\ RoundBound(MaxRoundFull + 1)
        /\ UNCHANGED aux

PassTurnDone ==
    \E p \in PlayerIds :
        /\ Completed
        /\ passTurn(p)
        /\ last'.ok
        /\ RoundBound(MaxRoundFull + 1)
        /\ UNCHANGED aux

TimerTickDone ==
    Completed /\ timerTick /\ RoundBound(MaxRoundFull + 1) /\ UNCHANGED aux

DisconnectDone ==
    \E p \in PlayerIds :
        /\ Completed
        /\ handlePlayerDisconnect(p)
        /\ Done("disconnect", p)
        /\ RoundBound(MaxRoundFull + 1)
        /\ UNCHANGED << playerConnections, wsPlayerId, aux >>

NextDone ==
    \/ JoinGameWaiting
    \/ StartGameOnce
    \/ ScoreFirstOpen
    \/ RollDiceDone
    \/ SelectDiceDone
    \/ ScoreCategoryDone
    \/ PassTurnDone
    \/ TimerTickDone
    \/ DisconnectDone

SpecDone == Init /\ [][NextDone]_vars

----------------------------------------------------------------------------
(* Properties *)

\* the value the repository holds for a category of a player's score card
Recorded(playerId, category) ==
    getScoreCardByPlayerId(dbScoreCards, playerId)[category]

\* C1: once a ScoreCategory has recorded a value for a category of a
\* participant (whatever the value), no later step other than a restart
\* changes the recorded value: a second ScoreCategory for it fails
C1_ScoredOnce ==
    [][ \A p \in PlayerIds, c \in Categories :
          (Recorded(p, c) # NULL /\ last'.op # "restartGame")
              => Recorded(p, c)' = Recorded(p, c) ]_vars

\* the state the claims call authoritative, and its repository
gameVars == << dbGame, dbPlayers, dbScoreCards, games, turnTimers >>

TurnOps == { "rollDice", "selectDice", "scoreCategory", "passTurn" }

\* C2: a RollDice, SelectDice, ScoreCategory or PassTurn of a participant
\* who is not the active participant of the snapshot is rejected and
\* changes nothing of the game
C2_NotYourTurn ==
    [][ (last'.op \in TurnOps /\ last'.by # games.currentPlayerId)
            => (~ last'.ok /\ UNCHANGED gameVars) ]_vars

\* C2 witness: a roll of a non-active participant, with rolls left, has
\* been rejected in a running game
C2_Witness ==
    /\ last = [ op |-> "rollDice", by |-> last.by, ok |-> FALSE ]
    /\ last.by # games.currentPlayerId
    /\ games.status = "in_progress"
    /\ games.rollsLeft > 0

\* the participants the snapshot marks as having the turn
CurrentTurn == { i \in DOMAIN games.players : games.players[i].isCurrentTurn }

ExactlyOneCurrent ==
    /\ Cardinality(CurrentTurn) = 1
    /\ CurrentTurn = { games.currentPlayerId }

\* C3 as stated: from a started room (its status is not waiting) every
\* step leads to a state where exactly one participant has the turn or
\* the room is completed
C3_OneCurrentOrCompleted ==
    [][ games.status # "waiting"
            => (ExactlyOneCurrent' \/ games'.status = "completed") ]_vars

\* C3 amended: exactly one participant has the turn (the one the snapshot
\* names), or the room is completed, or it is waiting (again)
C3_OneCurrentUnlessWaiting ==
    \/ ExactlyOneCurrent
    \/ games.status = "completed"
    \/ games.status = "waiting"

\* C3 witness: a room of two participants has been started
C3_Witness ==
    /\ last.op = "startGame" /\ last.ok
    /\ Len(games.players) = 2
    /\ games.status = "in_progress"
    /\ ExactlyOneCurrent

\* C4: a roll that is accepted finds 1 to 3 rolls left, lowers them by
\* exactly one and clears the hold mask; a roll with no rolls left is
\* rejected and changes neither the dice nor the rolls left
C4_RollsLeft ==
    [][ last'.op = "rollDice" =>
          /\ last'.ok =>
                /\ games.rollsLeft \in 1 .. MAX_ROLLS_PER_TURN
                /\ games'.rollsLeft = games.rollsLeft - 1
                /\ games'.selectedDice = NoSelection
          /\ games.rollsLeft = 0 =>
                /\ ~ last'.ok
                /\ games'.currentDice = games.currentDice
                /\ games'.rollsLeft = 0 ]_vars

\* C4 witness: the active participant has used the three rolls and a
\* fourth roll has been rejected
C4_Witness ==
    /\ last = [ op |-> "rollDice", by |-> games.currentPlayerId, ok |-> FALSE ]
    /\ games.rollsLeft = 0
    /\ games.status = "in_progress"

\* the turn order of the participant the snapshot names as active (0: none)
ActiveTurnOrder(g) ==
    IF g.currentPlayerId \in DOMAIN g.players
    THEN g.players[g.currentPlayerId].turnOrder
    ELSE 0

\* C5: a step changes the round counter of the snapshot only by passing
\* the turn to the participant at turn order 1, and then by exactly 1;
\* a restart sets it to 1
C5_RoundCounter ==
    [][ games'.currentRound # games.currentRound =>
          \/ last'.op = "restartGame" /\ games'.currentRound = 1
          \/ /\ ActiveTurnOrder(games') = 1
             /\ games'.currentRound = games.currentRound + 1 ]_vars

\* C6: after N consecutive turn advances in an active room of N
\* participants, every advance has gone to the next turn order (1 after N),
\* the turn is back at the participant it started from and the round
\* counter is 1 higher than at the start
C6_FullCircle ==
    LET N == Len(games.players)
    IN  Len(turns) = N + 1 =>
          /\ \A k \in 1 .. N :
                /\ turns[k].currentPlayerId \in DOMAIN games.players
                /\ turns[k + 1].currentPlayerId \in DOMAIN games.players
                /\ games.players[turns[k + 1].currentPlayerId].turnOrder =
                     (games.players[turns[k].currentPlayerId].turnOrder % N) + 1
          /\ turns[N + 1].currentPlayerId = turns[1].currentPlayerId
          /\ turns[N + 1].currentRound = turns[1].currentRound + 1

\* every category of every participant has a recorded value
AllScored == \A p \in PlayerIds, c \in Categories : Recorded(p, c) # NULL

\* C7: a room that is not completed becomes completed in exactly the steps
\* that are a ScoreCategory after which every participant's score card has
\* all 13 categories set (the round counter plays no part)
C7_CompletedWhenAllScored ==
    [][ games.status # "completed" =>
          ( games'.status = "completed"
              <=> (last'.op = "scoreCategory" /\ last'.ok /\ AllScored') ) ]_vars

\* C8: in a started room the status is completed if and only if every
\* score card is full or the round counter exceeds maxRounds
C8_CompletedIff ==
    games.status # "waiting" =>
        ( games.status = "completed"
            <=> (AllScored \/ games.currentRound > maxRounds) )

\* C9: when the last connection of the active participant of an active
\* room has closed, the participant is marked disconnected and the
\* snapshot names the next participant in turn order as the active one
C9_DisconnectPassesTurn ==
    [][ ( /\ last'.op = "disconnect"
          /\ games.status = "in_progress"
          /\ dbGame.currentPlayerId = last'.by
          /\ games.currentPlayerId = last'.by )
        => /\ dbPlayers'[last'.by].disconnected
           /\ games'.currentPlayerId =
                getNextPlayer(dbPlayers, dbPlayers[last'.by].turnOrder) ]_vars

\* C10: in an active room of two participants, when the participant whose
\* turn it is sends nothing, the turn eventually passes to the other
\* participant and a countdown runs for them (as long as the round bound
\* of the model leaves room for the pass)
C10_IdleTurnPasses ==
    \A p \in 1 .. MaxUsers :
        ( /\ games.status = "in_progress"
          /\ Len(games.players) = 2
          /\ games.currentPlayerId = p
          /\ dbGame.currentRound < MaxRound )
        ~> (games.currentPlayerId # p /\ turnTimers > 0)

\* C11: while the status of the room is not in_progress (waiting or
\* completed) no interval of the room is running
C11_NoTimerUnlessActive ==
    games.status # "in_progress" => turnTimers = 0

\* C12: at most one interval of the room is running, and exactly one
\* while the status is in_progress
C12_OneTimer ==
    /\ turnTimers <= 1
    /\ games.status = "in_progress" => turnTimers = 1

\* C12 witness: the countdown of an active room has run out, the timer
\* has been cleared and set again, and one interval is running
C12_Witness ==
    /\ last.op = "timerExpired"
    /\ games.status = "in_progress"
    /\ turnTimers = 1

\* C13: after a restart the snapshot shows status waiting, nobody's turn,
\* round 1, and for every participant score 0, not ready and a score card
\* with all 13 categories open
C13_RestartResets ==
    [][ (last'.op = "restartGame" /\ last'.ok) =>
          /\ games'.status = "waiting"
          /\ games'.currentPlayerId = 0
          /\ games'.currentRound = 1
          /\ \A i \in DOMAIN games'.players :
                /\ games'.players[i].score = 0
                /\ ~ games'.players[i].isReady
                /\ games'.players[i].scoreCard = EmptyCard ]_vars

\* C14: a restart leaves the participants of the room and the turn order
\* of each of them as they were, in the repository and in the snapshot
C14_RestartKeepsPlayers ==
    [][ (last'.op = "restartGame" /\ last'.ok) =>
          /\ DOMAIN dbPlayers' = DOMAIN dbPlayers
          /\ DOMAIN games'.players = DOMAIN games.players
          /\ \A i \in DOMAIN dbPlayers :
                /\ dbPlayers'[i].userId = dbPlayers[i].userId
                /\ dbPlayers'[i].turnOrder = dbPlayers[i].turnOrder
                /\ games'.players[i].userId = games.players[i].userId
                /\ games'.players[i].turnOrder = games.players[i].turnOrder ]_vars

\* C14 witness: a room of two participants (turn orders 1 and 2) has been
\* restarted after it was started
C14_Witness ==
    /\ last = [ op |-> "restartGame", by |-> dbGame.hostId, ok |-> TRUE ]
    /\ Len(games.players) = 2
    /\ games.players[2].turnOrder = 2
    /\ games.status = "waiting"
    /\ Restarts = 1

\* C15: the turn orders of the N participants of the room are exactly the
\* values 1 .. N (so each is used once)
C15_TurnOrders ==
    { dbPlayers[i].turnOrder : i \in DOMAIN dbPlayers } = 1 .. Len(dbPlayers)

\* C16: a join handled while the room is in_progress adds no participant
C16_NoLateJoin ==
    [][ (last'.op = "joinGame" /\ dbGame.status = "in_progress")
            => Len(dbPlayers') = Len(dbPlayers) ]_vars

\* the participants of a user
PlayersOf(userId) == { i \in DOMAIN dbPlayers : dbPlayers[i].userId = userId }

\* C17: the room never holds more than one participant for a user, and a
\* join of a user who is a participant changes nothing of the players but
\* that participant's disconnected flag, which it clears
C17_OneParticipantPerUser ==
    /\ [](\A u \in JoinUsers : Cardinality(PlayersOf(u)) <= 1)
    /\ [][ \A u \in JoinUsers :
             (last'.op = "joinGame" /\ last'.by = u /\ last'.ok /\ PlayersOf(u) # {})
                => \E i \in PlayersOf(u) :
                      dbPlayers' = [ dbPlayers EXCEPT ![i].disconnected = FALSE ] ]_vars

\* the operations after which the route broadcasts the snapshot
BroadcastOps == { "joinGame", "startGame", "rollDice", "passTurn" }

\* the connections registered for a participant of the room
ParticipantSockets == { s \in Sockets : wsPlayerId[s] \in DOMAIN games.players }

\* C18: after an operation that has changed the room, every connection
\* registered for a participant (whose send does not throw) has been sent
\* the snapshot
C18_BroadcastToAll ==
    [][ (last'.op \in BroadcastOps /\ last'.ok)
            => \A s \in ParticipantSockets' :
                  s \notin outbox'.failed => s \in outbox'.updates ]_vars

\* C19: the connections that are sent the snapshot are those that would
\* be sent it if no send threw, without the ones whose send has thrown
C19_FailureDoesNotStop ==
    [][ (last'.op \in BroadcastOps /\ last'.ok)
            => outbox'.updates =
                 broadcastGameUpdate(games', playerConnections', {}) \ outbox'.failed ]_vars

\* C19 witness: in a broadcast the send to one connection has thrown and
\* another connection has been sent the snapshot
C19_Witness ==
    /\ last.op \in BroadcastOps /\ last.ok
    /\ outbox.failed # {}
    /\ outbox.updates # {}

\* C20: when an action of a registered connection is rejected, an ERROR
\* is sent to that connection and to no other
C20_ErrorToSender ==
    [][ (last'.op \in { "startGame", "rollDice", "passTurn" } /\ ~ last'.ok)
            => outbox'.errors = { outbox'.from } ]_vars

\* the connection the last action came over is registered for a participant
\* of the room whose user is not the host
FromNonHost(socket) ==
    /\ socket \in Sockets
    /\ wsPlayerId[socket] \in DOMAIN dbPlayers
    /\ dbPlayers[wsPlayerId[socket]].userId # dbGame.hostId

\* C21: a start or restart sent over a connection registered for a
\* participant who is not the host fails and changes nothing of the room
C21_HostOnly ==
    [][ ( /\ last'.op \in { "startGame", "restartGame" }
          /\ FromNonHost(outbox'.from) )
        => (~ last'.ok /\ UNCHANGED gameVars) ]_vars

\* C22: a start that is accepted leaves the room in_progress with the
\* participant at turn order 1 as the active one, the five dice at their
\* default faces, nothing held, three rolls left and the countdown running
\* from its full duration
C22_StartDefaults ==
    [][ (last'.op = "startGame" /\ last'.ok) =>
          /\ games'.status = "in_progress"
          /\ dbGame'.status = "in_progress"
          /\ ActiveTurnOrder(games') = 1
          /\ games'.currentDice = DefaultDice
          /\ games'.selectedDice = NoSelection
          /\ games'.rollsLeft = MAX_ROLLS_PER_TURN
          /\ games'.turnTimer = TURN_TIMER_DURATION
          /\ turnTimers' = 1 ]_vars

\* C22 witness: a room of two participants that had reached round 2 has
\* been started again
C22_Witness ==
    /\ last.op = "startGame" /\ last.ok
    /\ Len(games.players) = 2
    /\ games.currentRound = 2
    /\ games.rollsLeft = MAX_ROLLS_PER_TURN

\* C23: in a room whose only participant is the host, a start by the host
\* is accepted, and every turn pass (sent, or made by the countdown) leaves
\* that participant the active one and raises the round counter of the
\* snapshot by exactly 1
C23_SinglePlayer ==
    [][ Len(dbPlayers) = 1 =>
          /\ (last'.op = "startGame" /\ last'.by = dbGame.hostId) => last'.ok
          /\ (last'.op \in { "passTurn", "timerExpired" } /\ last'.ok) =>
                /\ games'.currentPlayerId = games.currentPlayerId
                /\ games'.currentPlayerId = 1
                /\ games'.currentRound = games.currentRound + 1 ]_vars

\* the snapshot holds five dice, each showing a face in 1..6
DiceValid ==
    /\ DOMAIN games.currentDice = DiceIdx
    /\ \A i \in DiceIdx : games.currentDice[i] \in 1 .. 6

\* C24: the dice are always five faces in 1..6, and a roll that is accepted
\* leaves every die the hold mask of the message marks at its face, whether
\* the faces come from the dice roller or from the fallback
C24_HeldDiceKept ==
    /\ []DiceValid
    /\ [][ \A p \in PlayerIds, sel \in HoldMasks, rolled \in RollerResults,
             random \in MathRandom :
             (rollDice(p, sel, newDiceValues(rolled, random)) /\ last'.ok) =>
                \A i \in DiceIdx :
                    /\ sel[i] => games'.currentDice[i] = games.currentDice[i]
                    /\ games'.currentDice[i] \in 1 .. 6 ]_vars

\* C24 witness: the dice roller has failed in a roll that held the first
\* two dice; they show their default face and the others the fallback draw
C24_Witness ==
    /\ last.op = "rollDice" /\ last.ok
    /\ games.currentDice = << 1, 1, 6, 4, 5 >>

\* C25: a ScoreCategory that is accepted records, for the acting
\* participant and the named category, the value calculateScore gives for
\* the dice of the snapshot, raises that participant's score by the value,
\* and leaves every other category and every other participant's score
\* card and score as they were
C25_ScoreRecorded ==
    [][ \A p \in PlayerIds, c \in ScoreInputs :
          (scoreCategory(p, c) /\ last'.ok) =>
             LET score == calculateScore(games.currentDice, c)
             IN  /\ Recorded(p, c)' = score
                 /\ \A d \in Categories \ {c} : Recorded(p, d)' = Recorded(p, d)
                 /\ dbPlayers'[p].score = dbPlayers[p].score + score
                 /\ games'.players[p].score = games.players[p].score + score
                 /\ \A q \in PlayerIds \ {p} :
                       /\ dbPlayers'[q] = dbPlayers[q]
                       /\ games'.players[q].score = games.players[q].score
                       /\ games'.players[q].scoreCard = games.players[q].scoreCard
                       /\ \A d \in Categories : Recorded(q, d)' = Recorded(q, d) ]_vars

\* C25 witness: in a room of two participants, one has scored the dice
\* 1 1 3 3 3 in the first category: 2 is recorded and is their score
C25_Witness ==
    /\ last.op = "scoreCategory" /\ last.ok
    /\ Len(dbPlayers) = 2
    /\ Recorded(last.by, ScoreCategory[1]) = 2
    /\ dbPlayers[last.by].score = 2

\* the turn order that follows turn order o among the participants of
\* snapshot g: the lowest one above o, or the lowest of all when none is
NextTurnOrder(g, o) ==
    LET orders == { g.players[i].turnOrder : i \in DOMAIN g.players }
        higher == { t \in orders : t > o }
        from   == IF higher = {} THEN orders ELSE higher
    IN  CHOOSE t \in from : \A u \in from : t <= u

\* C26: after a turn pass that is accepted (sent, or made by the
\* countdown) or a ScoreCategory that does not complete the room, the
\* active participant is the one whose turn order follows that of the
\* participant active before, the dice show their default faces, nothing
\* is held and three rolls are left
C26_NextTurn ==
    [][ ( /\ \/ \E p \in PlayerIds : passTurn(p) /\ last'.ok
             \/ \E p \in PlayerIds, c \in ScoreInputs : scoreCategory(p, c) /\ last'.ok
             \/ timerTick /\ last'.op = "timerExpired"
          /\ games.currentPlayerId \in DOMAIN games.players
          /\ games'.status # "completed" )
        => /\ games'.currentPlayerId \in DOMAIN games'.players
           /\ games'.currentPlayerId # games.currentPlayerId \/ Len(games.players) = 1
           /\ ActiveTurnOrder(games') = NextTurnOrder(games, ActiveTurnOrder(games))
           /\ games'.currentDice = DefaultDice
           /\ games'.selectedDice = NoSelection
           /\ games'.rollsLeft = MAX_ROLLS_PER_TURN ]_vars

\* C27: a ToggleReady that is accepted flips the ready flag of that
\* participant and changes nothing else: in a room in progress the dice,
\* the rolls left, the hold mask, the countdown, the active participant,
\* the round counter and the score cards stay as they were
C27_ToggleOnlyReady ==
    [][ \A p \in PlayerIds :
          (togglePlayerReady(p) /\ last'.ok) =>
             /\ dbPlayers' = [ dbPlayers EXCEPT ![p].isReady = ~ dbPlayers[p].isReady ]
             /\ games'.players[p].isReady = ~ games.players[p].isReady
             /\ games.status = "in_progress" =>
                   /\ games'.currentDice = games.currentDice
                   /\ games'.rollsLeft = games.rollsLeft
                   /\ games'.selectedDice = games.selectedDice
                   /\ games'.turnTimer = games.turnTimer
                   /\ games'.currentPlayerId = games.currentPlayerId
                   /\ games'.currentRound = games.currentRound
                   /\ \A q \in PlayerIds :
                         games'.players[q].scoreCard = games.players[q].scoreCard ]_vars

\* C28: when two PassTurn actions on the room have both been handled,
\* overlapping or not, the room is in the state that handling the two one
\* after the other, in one order or the other, leads to from the state the
\* first of them began in
C28_Serializable ==
    \A a, b \in pending :
        (a.req = 1 /\ b.req = 2 /\ a.pc = "done" /\ b.pc = "done") =>
            \/ Now = passTurnOn(passTurnOn(a.start, a.playerId), b.playerId)
            \/ Now = passTurnOn(passTurnOn(a.start, b.playerId), a.playerId)

\* C29: a ScoreCategory, whether it returns a state or fails on the way,
\* that leaves a new value recorded for a category has also raised the
\* participant's score by that value and has moved the turn on (or has
\* completed the room)
C29_AllOrNothing ==
    [][ last'.op = "scoreCategory" =>
          \A p \in PlayerIds, c \in Categories :
             (last'.by = p /\ Recorded(p, c)' # Recorded(p, c)) =>
                /\ dbPlayers'[p].score = dbPlayers[p].score + Recorded(p, c)'
                /\ \/ dbGame'.status = "completed"
                   \/ dbGame' = MoveToNextPlayer(dbGame, dbPlayers',
                                                 dbPlayers[p].turnOrder) ]_vars

\* C30: no two rooms have the same join code, and a room that has just
\* been created is waiting, with its host as the only participant, at turn
\* order 1 and with an empty score card
C30_UniqueCode ==
    /\ \A i, j \in DOMAIN created : created[i].code = created[j].code => i = j
    /\ \A i \in DOMAIN created :
          LET g == created[i].gameState
          IN  /\ g.status = "waiting"
              /\ Len(g.players) = 1
              /\ g.players[1].userId = g.hostId
              /\ g.players[1].turnOrder = 1
              /\ g.players[1].scoreCard = EmptyCard

\* C31: the close of a connection of a participant who has another
\* connection registered and open marks nobody disconnected, passes no turn
\* and leaves the room as it was
C31_OtherConnectionOpen ==
    [][ \A s \in Sockets :
          ( /\ closeConnection(s)
            /\ playerConnections[wsPlayerId[s]] \ {s} # {} )
          => /\ last'.op # "disconnect"
             /\ dbPlayers' = dbPlayers
             /\ UNCHANGED gameVars ]_vars

\* C31 witness: one of the two connections of the active participant of a
\* room in progress has closed, the other is open
C31_Witness ==
    /\ last.op = "closeConnection"
    /\ last.by \in DOMAIN dbPlayers
    /\ playerConnections[last.by] # {}
    /\ games.status = "in_progress"
    /\ games.currentPlayerId = last.by
    /\ ~ dbPlayers[last.by].disconnected

\* the number of dice that show face v
FaceCount(dice, v) == Cardinality({ i \in DiceIdx : dice[i] = v })

\* C32: whatever five faces the dice show, the value recorded for a
\* category is not negative; for the full house it is 25 when one face
\* shows three times and another face twice and 0 otherwise; for the yacht
\* it is 50 when all five dice show the same face and 0 otherwise
C32_ScoreValues ==
    [][ \A c \in Categories :
          scoreCategory(1, c) =>
             LET dice == games.currentDice
                 threeAndTwo == \E a, b \in 1 .. 6 :
                                   /\ a # b
                                   /\ FaceCount(dice, a) = 3
                                   /\ FaceCount(dice, b) = 2
                 allEqual == \A i, j \in DiceIdx : dice[i] = dice[j]
             IN  /\ Recorded(1, c)' >= 0
                 /\ Recorded(1, c)' = calculateScore(dice, c)
                 /\ c = "fullHouse" =>
                       Recorded(1, c)' = (IF threeAndTwo THEN 25 ELSE 0)
                 /\ c = "yacht" =>
                       Recorded(1, c)' = (IF allEqual THEN 50 ELSE 0) ]_vars

\* C32 witness: dice that showed a full house have been scored as one
C32_Witness ==
    /\ last.op = "scoreCategory" /\ last.ok
    /\ Recorded(1, "fullHouse") = 25
    /\ dbPlayers[1].score = 25

\* the sum of the values set in a score card for the categories in S
RECURSIVE SetValues(_, _)
SetValues(card, S) ==
    IF S = {} THEN 0
    ELSE LET c == CHOOSE x \in S : TRUE
         IN  (IF card[c] = NULL THEN 0 ELSE card[c]) + SetValues(card, S \ {c})

\* C33: the total the Scorecard shows is the sum of the values of all 13
\* categories, a category that is not set counting 0, plus 35 exactly when
\* the six categories ones to sixes come to 63 or more
C33_TotalScore ==
    [][ ShowScorecard =>
          LET card  == games.players[1].scoreCard
              upper == SetValues(card, { "ones", "twos", "threes",
                                         "fours", "fives", "sixes" })
          IN  scorecardView'.totalScore =
                 SetValues(card, Categories) + (IF upper >= 63 THEN 35 ELSE 0) ]_vars

\* C33 witness: a score card whose upper section comes to exactly 63 is
\* shown with the bonus
C33_Witness ==
    /\ scorecardView.upperSectionTotal = 63
    /\ scorecardView.upperSectionBonus = 35
    /\ scorecardView.totalScore = 63 + 35 + 50

\* C34: within one turn at most three ROLL_DICE messages are accepted,
\* whatever joins, rejoins, ready toggles and closing connections of
\* participants who are not active happen between them
C34_ThreeRollsPerTurn == rollsInTurn <= MAX_ROLLS_PER_TURN

\* C35: of two SCORE_CATEGORY messages of one turn, the second taken up
\* while the first is being handled, at most one writes a score card value,
\* and together they advance the turn once (the round rises by one at most)
C35_OneCategoryPerTurn ==
    \A r1, r2 \in pending :
        (r1.req < r2.req /\ r2.overlaps) =>
            /\ ~ (r1.wrote /\ r2.wrote)
            /\ dbGame.currentRound <= r1.began + 1

\* the score cards, the scores, the active participant, the round and the
\* status of the room, in the repository and in the snapshot
Outcome(game, players, cards, g) ==
    [ scoreCards      |-> cards,
      scores          |-> [ i \in DOMAIN players |-> players[i].score ],
      currentPlayerId |-> game.currentPlayerId,
      currentRound    |-> game.currentRound,
      status          |-> game.status,
      shown           |-> [ status          |-> g.status,
                            currentPlayerId |-> g.currentPlayerId,
                            currentRound    |-> g.currentRound,
                            players         |-> [ i \in DOMAIN g.players |->
                                                    [ score     |-> g.players[i].score,
                                                      scoreCard |-> g.players[i].scoreCard ] ] ] ]

\* C36: in a completed room no ROLL_DICE, SELECT_DICE, SCORE_CATEGORY,
\* PASS_TURN, tick of the turn timer or disconnect changes the score cards,
\* the scores, the active participant, the round or the status
C36_CompletedStays ==
    [][ ( /\ Completed
          /\ games.status = "completed"
          /\ last'.op \in { "rollDice", "selectDice", "scoreCategory", "passTurn",
                            "timerTick", "timerExpired", "disconnect" } )
        => Outcome(dbGame, dbPlayers, dbScoreCards, games)'
             = Outcome(dbGame, dbPlayers, dbScoreCards, games) ]_vars

\* C37: between the operations the snapshot of the room shows the status,
\* the active participant and the round of the repository's game record
C37_SnapshotAgrees ==
    /\ games.status = dbGame.status
    /\ games.currentPlayerId = dbGame.currentPlayerId
    /\ games.currentRound = dbGame.currentRound

\* C38: between the operations every participant's score is the sum of the
\* values set in the participant's score card, in the repository and in
\* the snapshot
C38_ScoreIsCardSum ==
    /\ \A i \in DOMAIN dbPlayers :
          ScoreCardRow(dbScoreCards, i) # 0 =>
             dbPlayers[i].score
               = SetValues(getScoreCardByPlayerId(dbScoreCards, i), Categories)
    /\ \A i \in DOMAIN games.players :
          games.players[i].score = SetValues(games.players[i].scoreCard, Categories)

\* the status, the active participant, the turn state (dice, rolls left,
\* hold mask) and the countdown of the room
TurnView(game, g) ==
    [ status          |-> << game.status, g.status >>,
      currentPlayerId |-> << game.currentPlayerId, g.currentPlayerId >>,
      currentDice     |-> g.currentDice,
      rollsLeft       |-> g.rollsLeft,
      selectedDice    |-> g.selectedDice,
      turnTimer       |-> g.turnTimer ]

\* C39: a START_GAME of the host in a room that is not waiting changes
\* neither the status, the active participant, the turn state nor the
\* countdown
C39_StartOnlyWaiting ==
    [][ (dbGame.status # "waiting" /\ last'.op = "startGame")
        => TurnView(dbGame, games)' = TurnView(dbGame, games) ]_vars

\* C40: a SCORE_CATEGORY records no value while no roll of the turn has
\* been accepted, that is while the rolls left are 3 and the dice are the
\* faces set at the start of the turn
C40_ScoreAfterRoll ==
    [][ \A p \in PlayerIds, c \in Categories :
          ( /\ games.rollsLeft = MAX_ROLLS_PER_TURN
            /\ games.currentDice = DefaultDice
            /\ last'.op = "scoreCategory"
            /\ last'.by = p )
          => Recorded(p, c)' = Recorded(p, c) ]_vars

====
